---- MODULE Spec2Model ----
(***************************************************************************)
(* Model of the text-to-animation core of Educompanion                     *)
(* (educompanion-backend/text_to_animation/intelligent_animator.py):       *)
(* ContentAnalyzer.analyze_content, the data-structure operation           *)
(* extractor, the dispatcher of UniversalAnimationEngine, its stack,       *)
(* queue, array, binary-tree, linked-list, graph and hash-table            *)
(* simulators, the frame files they write, _frames_to_video and the        *)
(* reconciliation of a narration track with the video.                     *)
(*                                                                         *)
(* A note text is a sequence of lines joined by "\n".  The lines are taken *)
(* from the finite set Lines; what each regular expression and each        *)
(* substring test of the source finds in a line is tabulated per line.     *)
(***************************************************************************)
EXTENDS Integers, Sequences, FiniteSets, TLC

\* ---------------------------------------------------------------- bounds
MaxLines == 3
MaxOps == 5
MaxMix == 2
MaxArrayOps == 12
MaxStructOps == 4
MaxHashOps == 3
MaxReplayOps == 2
MaxSlides == 3
MaxAudio == 14
MaxFrames == 2
MaxNoteLines == 4
MaxUuids == 4

VARIABLES
    text,            \* the note text: a sequence of lines
    pc,              \* position of the run
    primary_type,    \* analyze_content: the chosen content type
    content_scores,  \* analyze_content: score per content type
    elements,        \* analyze_content: the extracted elements
    raised,          \* the exception that left the call, or "none"
    operations,      \* the operation list handed to the engine
    simulator,       \* the simulator the dispatcher chose
    step,            \* number of operations the simulator loop has consumed
    operation,       \* the operation of the current loop iteration
    stack,           \* _animate_stack: the stack, bottom first
    queue,           \* _animate_queue: the queue, front first
    array,           \* _animate_array: the array
    root,            \* _animate_tree: the tree, a function path -> value
    head,            \* _animate_linked_list: the values from the head node on
    nodes,           \* _animate_graph: the keys of nodes, in insertion order
    adjacency,       \* _animate_graph: vertex -> list of neighbours
    edge_weights,    \* _animate_graph: <<from, to>> -> weight
    visited_order,   \* _animate_graph: the visited vertices
    hash_table,      \* _animate_hash_table: bucket index -> chain
    collision_count, \* _animate_hash_table: the collision counter
    hash_seed,       \* hash(str(key)) % table_size of the keys this process has hashed
    replay,          \* the hash table of the same list in a separately started process
    frame_count,     \* number of frames the simulator has saved
    frame_files,     \* the numbers NNNN of the temp_frame_NNNN.png files on disk
    output_files,    \* what _frames_to_video left at the output path
    video_frames,    \* number of frames of the encoded video
    returned,        \* what the animation call returned, or "none"
    clips,           \* the durations of the clips of the video being assembled
    audio_duration,  \* the duration of the narration track
    final_video,     \* the assembled video: its duration and the audio it carries
    runs,            \* two runs in one working directory
    cwd,             \* the temporary files of the working directory
    highlighted,     \* the nodes drawn gold in the last frame after an operation
    uploads,         \* controller: the file names of the upload folder
    generated,       \* controller: the file names of the output folder
    issued,          \* how many values uuid.uuid4() has handed out
    call,            \* the process_file request in flight
    processed,       \* file_id -> the video_id a 200 answer of process_file gave
    response         \* the last answer the controller gave

vars == <<text, pc, primary_type, content_scores, elements, raised,
          operations, simulator, step, operation, stack, queue, array, root,
          head, nodes, adjacency, edge_weights, visited_order,
          hash_table, collision_count, hash_seed, replay,
          frame_count, frame_files, output_files, video_frames, returned,
          clips, audio_duration, final_video, runs, cwd,
          highlighted, uploads, generated, issued, call, processed, response>>

\* the variables by the part of the program that writes them
list_graph == <<head, nodes, adjacency, edge_weights, visited_order>>
hashing == <<hash_table, collision_count, hash_seed, replay>>
frames == <<frame_count, frame_files>>
encoding == <<output_files, video_frames, returned>>
narration == <<clips, audio_duration, final_video>>
concurrent == <<runs, cwd>>
service == <<uploads, generated, issued, call, processed, response>>
animation == <<text, pc, primary_type, content_scores, elements, raised,
               operations, simulator, step, operation, stack, queue, array, root,
               list_graph, hashing, frames, encoding, narration, concurrent, highlighted>>

\* ------------------------------------------------------------- utilities
RECURSIVE SeqsUpTo(_, _)
SeqsUpTo(S, n) ==
    IF n = 0 THEN {<<>>}
    ELSE LET shorter == SeqsUpTo(S, n - 1)
         IN  shorter \cup {Append(s, x) : s \in {t \in shorter : Len(t) = n - 1}, x \in S}

RECURSIVE Flatten(_)
Flatten(ss) == IF ss = <<>> THEN <<>> ELSE Head(ss) \o Flatten(Tail(ss))

RECURSIVE SumSeq(_)
SumSeq(s) == IF s = <<>> THEN 0 ELSE Head(s) + SumSeq(Tail(s))

RECURSIVE SumSet(_, _)
SumSet(S, f) ==
    IF S = {} THEN 0
    ELSE LET x == CHOOSE y \in S : TRUE IN f[x] + SumSet(S \ {x}, f)

\* list(dict.fromkeys(values)): drop later duplicates, keep the order
RECURSIVE Unique(_)
Unique(s) ==
    IF s = <<>> THEN <<>>
    ELSE LET init == Unique(SubSeq(s, 1, Len(s) - 1))
             last == s[Len(s)]
         IN  IF \E k \in 1..Len(init) : init[k] = last THEN init ELSE Append(init, last)

\* values[:n]
Prefix(s, n) == SubSeq(s, 1, IF Len(s) < n THEN Len(s) ELSE n)

\* ------------------------------------------------------------ the lines
Lines == {"hello", "heap", "stack", "queue", "tree", "list", "graph", "hash",
          "array", "push(10)", "pop()", "enqueue(A)", "dequeue()",
          "- push 5", "- put 7", "insert(50)"}

\* the lines of the notes of test_all_data_structures.py, test_end_to_end.py
\* (graph steps) and test_enhanced_operations.py (calls on a stack object)
NoteLines == {"graph", "heap", "Add node A", "Add edge A to B", "DFS traversal from A",
              "stack.push(100);", "stack.pop();"}

\* the patterns of content_patterns (lower-cased) that occur in line.lower();
\* every one of them occurs exactly once in its line
OccLower(line) ==
    CASE line = "heap"       -> {"heap"}
      [] line = "stack"      -> {"stack"}
      [] line = "queue"      -> {"queue"}
      [] line = "tree"       -> {"tree"}
      [] line = "graph"      -> {"graph", "ph"}
      [] line = "hash"       -> {"hash"}
      [] line = "array"      -> {"array"}
      [] line = "push(10)"   -> {"push"}
      [] line = "pop()"      -> {"pop"}
      [] line = "enqueue(A)" -> {"queue", "enqueue", "n"}
      [] line = "dequeue()"  -> {"queue", "dequeue"}
      [] line = "- push 5"   -> {"push"}
      [] line = "insert(50)" -> {"insert", "n"}
      [] line = "Add node A" -> {"n"}
      [] line = "stack.push(100);" -> {"stack", "push"}
      [] line = "stack.pop();"     -> {"stack", "pop"}
      [] OTHER               -> {}

\* the symbols of content_patterns that occur in the line (case kept)
OccSymbols(line) ==
    CASE line = "- push 5" -> {"-"}
      [] line = "- put 7"  -> {"-"}
      [] OTHER             -> {}

\* the words the extractor tests with `word in text_lower` that the line holds
Words(line) ==
    CASE line = "stack"      -> {"stack"}
      [] line = "queue"      -> {"queue"}
      [] line = "tree"       -> {"tree"}
      [] line = "list"       -> {"list"}
      [] line = "graph"      -> {"graph"}
      [] line = "hash"       -> {"hash"}
      [] line = "array"      -> {"array"}
      [] line = "push(10)"   -> {"push"}
      [] line = "pop()"      -> {"pop"}
      [] line = "enqueue(A)" -> {"queue", "enqueue"}
      [] line = "dequeue()"  -> {"queue", "dequeue"}
      [] line = "- push 5"   -> {"push"}
      [] line = "insert(50)" -> {"insert", "50"}
      [] line = "Add node A" -> {"node"}
      [] line = "DFS traversal from A" -> {"dfs"}
      [] line = "stack.push(100);"     -> {"stack", "push"}
      [] line = "stack.pop();"         -> {"stack", "pop"}
      [] OTHER               -> {}

\* `word in text_lower`
InText(t, word) == \E k \in 1..Len(t) : word \in Words(t[k])
\* any(word in text_lower for word in words)
AnyInText(t, words) == \E w \in words : InText(t, w)

\* ---------------------------------------------------- ContentAnalyzer
ContentTypes == <<"data_structures", "algorithms", "mathematics", "physics",
                  "chemistry", "biology", "business">>

Keywords(ct) ==
    CASE ct = "data_structures" -> {"stack", "queue", "array", "linked list", "tree", "graph", "hash", "heap"}
      [] ct = "algorithms"  -> {"algorithm", "sort", "search", "recursion", "iteration", "divide", "conquer"}
      [] ct = "mathematics" -> {"equation", "formula", "function", "graph", "derivative", "integral", "matrix"}
      [] ct = "physics"     -> {"force", "motion", "energy", "wave", "velocity", "acceleration", "mass",
                                "kinematics", "dynamics", "momentum"}
      [] ct = "chemistry"   -> {"reaction", "molecule", "atom", "bond", "element", "compound", "chemical", "formula"}
      [] ct = "biology"     -> {"cell", "dna", "organism", "evolution", "gene", "protein", "enzyme"}
      [] ct = "business"    -> {"process", "workflow", "strategy", "analysis", "diagram", "flowchart"}

\* the keywords that count five times
SpecificKeywords(ct) ==
    CASE ct = "physics"     -> {"kinematics", "dynamics", "momentum", "velocity", "acceleration"}
      [] ct = "chemistry"   -> {"reaction", "molecule", "chemical", "formula"}
      [] ct = "biology"     -> {"cell", "dna", "organism", "gene"}
      [] ct = "mathematics" -> {"equation", "function", "derivative", "integral"}
      [] OTHER              -> {}

\* patterns.get('operations', []) + patterns.get('patterns', []), lower-cased
OperationsAndPatterns(ct) ==
    CASE ct = "data_structures" -> {"push", "pop", "enqueue", "dequeue", "insert", "delete", "search", "traverse"}
      [] ct = "algorithms"  -> {"bubble sort", "merge sort", "quick sort", "binary search", "linear search"}
      [] ct = "physics"     -> {"m/s", "m/s2", "kg", "n", "j", "w", "hz"}
      [] ct = "chemistry"   -> {"h2o", "co2", "nacl", "chemical equation", "ph", "acid", "base"}
      [] ct = "biology"     -> {"mitosis", "meiosis", "photosynthesis", "respiration"}
      [] OTHER              -> {}

Symbols(ct) ==
    IF ct = "mathematics" THEN {"=", "+", "-", "*", "/", "^", "integral-sign", "partial-sign", "sigma-sign"}
    ELSE {}

Concepts(ct) ==
    CASE ct = "physics"   -> {"newton", "gravity", "momentum", "friction"}
      [] ct = "chemistry" -> {"equilibrium", "catalyst", "oxidation", "reduction"}
      [] ct = "biology"   -> {"nucleus", "membrane", "chromosome", "inheritance", "adaptation"}
      [] ct = "business"  -> {"decision", "approval", "review", "implementation"}
      [] OTHER            -> {}

KeywordWeight(ct, keyword) == IF keyword \in SpecificKeywords(ct) THEN 5 ELSE 2

\* what one line adds to the score of content type ct
LineScore(ct, line) ==
    LET low == OccLower(line)
    IN  SumSet(low \cap Keywords(ct), [k \in low |-> KeywordWeight(ct, k)])
        + 3 * Cardinality(low \cap OperationsAndPatterns(ct))
        + 1 * Cardinality(OccSymbols(line) \cap Symbols(ct))
        + 2 * Cardinality(low \cap Concepts(ct))

Score(ct, t) == SumSeq([k \in 1..Len(t) |-> LineScore(ct, t[k])])

Scores(t) == [ct \in {ContentTypes[k] : k \in 1..Len(ContentTypes)} |-> Score(ct, t)]

\* a maximum that takes the last of several equal scores
FirstMax_LastMax(scores) ==
    LET k == CHOOSE a \in 1..Len(ContentTypes) :
                /\ \A b \in 1..Len(ContentTypes) : scores[ContentTypes[b]] <= scores[ContentTypes[a]]
                /\ \A b \in (a + 1)..Len(ContentTypes) : scores[ContentTypes[b]] < scores[ContentTypes[a]]
    IN  ContentTypes[k]

\* max(content_scores, key=content_scores.get): the first maximum in the
\* insertion order of the dictionary
FirstMax(scores) ==
    LET k == CHOOSE a \in 1..Len(ContentTypes) :
                /\ \A b \in 1..Len(ContentTypes) : scores[ContentTypes[b]] <= scores[ContentTypes[a]]
                /\ \A b \in 1..(a - 1) : scores[ContentTypes[b]] < scores[ContentTypes[a]]
    IN  ContentTypes[k]

PrimaryType(scores) ==
    IF \E ct \in DOMAIN scores : scores[ct] # 0 THEN FirstMax(scores) ELSE "general"


\* ------------------------------------------- regular expressions, per line
\* Each operator gives what re.findall(pattern, text) captures inside one
\* line, in order; no match of these patterns spans two lines of Lines.

\* push_patterns[p]
push_patterns(p, line) ==
    CASE p = 1 /\ line = "push(10)" -> <<"10">>
      [] p = 5 /\ line = "- push 5" -> <<"5">>
      [] p = 1 /\ line = "stack.push(100);" -> <<"100">>
      [] p = 2 /\ line = "stack.push(100);" -> <<"100">>
      [] OTHER                      -> <<>>

\* pop_patterns[p]
pop_patterns(p, line) ==
    CASE p = 1 /\ line = "pop()" -> <<"">>
      [] p \in {1, 2, 3} /\ line = "stack.pop();" -> <<"">>
      [] OTHER                   -> <<>>

\* enqueue_patterns[p]
enqueue_patterns(p, line) ==
    CASE p = 1 /\ line = "enqueue(A)" -> <<"A">>
      [] OTHER                        -> <<>>

\* dequeue_patterns[p]
dequeue_patterns(p, line) ==
    CASE p = 1 /\ line = "dequeue()" -> <<"">>
      [] OTHER                       -> <<>>

\* a tree pattern whose group takes the parentheses of the call with it
tree_patterns_CapturesCall(p, line) ==
    CASE p = 1 /\ line = "insert(50)" -> <<"(50)">>
      [] OTHER                        -> <<>>

\* tree branch: insert(d), createNode(d), newNode...=...d, data = d, insert(x, d)
tree_patterns(p, line) ==
    CASE p = 1 /\ line = "insert(50)" -> <<"50">>
      [] OTHER                        -> <<>>

\* linked-list branch: insert(w), append(w), delete()
list_patterns(p, line) ==
    CASE p = 1 /\ line = "insert(50)" -> <<"50">>
      [] OTHER                        -> <<>>

\* graph branch: add..node(w); add..edge(w, w) gives pairs
graph_node_matches(line) == IF line = "Add node A" THEN <<"A">> ELSE <<>>
graph_edge_matches(line) == <<>>

\* hash branch: insert(w), search(w), delete(w)
hash_patterns(p, line) ==
    CASE p = 1 /\ line = "insert(50)" -> <<"50">>
      [] OTHER                        -> <<>>

\* array branch: insert(d, d?) gives pairs <<value, index>>; append(d); delete(d?)
array_insert_matches(line) == IF line = "insert(50)" THEN << <<"50", "">> >> ELSE <<>>
array_append_matches(line) == <<>>
array_delete_matches(line) == <<>>

\* (?:^\d+\.|\-|\*)\s*(.+) : the texts of the numbered or bulleted items
numbered_operations(line) ==
    CASE line = "- push 5" -> <<"push 5">>
      [] line = "- put 7"  -> <<"put 7">>
      [] OTHER             -> <<>>

\* the words tested with `word in op_text.lower()`
OpTextWords(op_text) == IF op_text = "push 5" THEN {"push"} ELSE {}

\* re.search(r'(?:push|add|insert).*?(\d+|[A-Za-z]+)', op_text): group(1) or none
push_match(op_text) == IF op_text = "push 5" THEN <<"5">> ELSE <<>>
\* re.search(r'(?:pop|remove|delete)', op_text)
pop_search(op_text) == FALSE
\* re.search(r'(?:enqueue|add|insert|put).*?(\d+|[A-Za-z]+)', op_text)
enqueue_match(op_text) == IF op_text = "put 7" THEN <<"7">> ELSE <<>>
\* re.search(r'(?:dequeue|remove|take)', op_text)
dequeue_search(op_text) == FALSE

\* re.findall(r'\b(\d+|[A-Z])\b', text)
all_values(line) ==
    CASE line = "push(10)"   -> <<"10">>
      [] line = "enqueue(A)" -> <<"A">>
      [] line = "- push 5"   -> <<"5">>
      [] line = "- put 7"    -> <<"7">>
      [] line = "insert(50)" -> <<"50">>
      [] line = "Add node A" -> <<"A">>
      [] line = "Add edge A to B"      -> <<"A", "B">>
      [] line = "DFS traversal from A" -> <<"A">>
      [] line = "stack.push(100);"     -> <<"100">>
      [] OTHER               -> <<>>

\* any(char in value for char in '()[]{}"\''), with the colon: the characters
\* of that list the string holds; every other string of the model is made of
\* letters and digits only
unwanted(value) ==
    CASE value = "(50)"      -> {"(", ")"}
      [] value = "push(10)"  -> {"(", ")"}
      [] value = "pop()"     -> {"(", ")"}
      [] value = "enqueue(A)" -> {"(", ")"}
      [] value = "dequeue()" -> {"(", ")"}
      [] value = "insert(50)" -> {"(", ")"}
      [] OTHER               -> {}

\* re.findall over the whole text
FindAll(Pat(_), t) == Flatten([k \in 1..Len(t) |-> Pat(t[k])])
FindAllP(Pat(_, _), p, t) == Flatten([k \in 1..Len(t) |-> Pat(p, t[k])])

\* ------------------------------------------------------------ operations
OpV(type, value) == [type |-> type, value |-> value]
Op0(type) == [type |-> type]
WithValue(type, vals) == [k \in 1..Len(vals) |-> OpV(type, vals[k])]
Bare(type, matches) == [k \in 1..Len(matches) |-> Op0(type)]

\* the structure kind an operation type starts with
KindOf(type) ==
    CASE type \in {"stack_push", "stack_pop"}                      -> "stack"
      [] type \in {"queue_enqueue", "queue_dequeue"}               -> "queue"
      [] type \in {"array_insert", "array_append", "array_delete"} -> "array"
      [] type \in {"tree_insert"}                                  -> "tree"
      [] type \in {"list_insert", "list_append", "list_delete"}    -> "list"
      [] type \in {"graph_add_node", "graph_add_edge", "graph_dfs", "graph_bfs"} -> "graph"
      [] type \in {"hash_insert", "hash_search", "hash_delete"}    -> "hash"
      [] OTHER                                                     -> "none"

Kinds(ops) == {KindOf(ops[k].type) : k \in 1..Len(ops)}


\* ------------------------------- _extract_data_structure_operations
\* the stack branch: every push pattern in turn, then every pop pattern
StackBranch(t) ==
    Flatten([p \in 1..6 |-> WithValue("stack_push", FindAllP(push_patterns, p, t))])
    \o Flatten([p \in 1..5 |-> Bare("stack_pop", FindAllP(pop_patterns, p, t))])

QueueBranch(t) ==
    Flatten([p \in 1..6 |-> WithValue("queue_enqueue", FindAllP(enqueue_patterns, p, t))])
    \o Flatten([p \in 1..5 |-> Bare("queue_dequeue", FindAllP(dequeue_patterns, p, t))])

BstSeed == WithValue("tree_insert", <<"50", "30", "70", "20", "40", "60", "80">>)
GenericTreeSeed == WithValue("tree_insert", <<"10", "5", "15", "3", "7", "12", "18">>)

TreeBranch(t) ==
    LET found == Flatten([p \in 1..5 |-> WithValue("tree_insert", FindAllP(tree_patterns, p, t))])
    IN  IF found # <<>> THEN found
        ELSE IF AnyInText(t, {"50", "30", "70", "20", "40", "60", "80"}) THEN BstSeed
        ELSE GenericTreeSeed

ListSeed == <<OpV("list_insert", "10"), OpV("list_append", "20"), OpV("list_insert", "5"), Op0("list_delete")>>

ListBranch(t) ==
    LET found == WithValue("list_insert", FindAllP(list_patterns, 1, t))
                 \o WithValue("list_append", FindAllP(list_patterns, 2, t))
                 \o Bare("list_delete", FindAllP(list_patterns, 3, t))
    IN  IF found # <<>> THEN found ELSE ListSeed

GraphNode(type, node) == [type |-> type, node |-> node]
GraphEdge(from, to) == [type |-> "graph_add_edge", from_node |-> from, to_node |-> to]

GraphSeed == <<GraphNode("graph_add_node", "A"), GraphNode("graph_add_node", "B"),
               GraphNode("graph_add_node", "C"), GraphEdge("A", "B"), GraphEdge("B", "C"),
               GraphNode("graph_dfs", "A")>>

GraphBranch(t) ==
    LET node_matches == FindAll(graph_node_matches, t)
        edge_matches == FindAll(graph_edge_matches, t)
        found == [k \in 1..Len(node_matches) |-> GraphNode("graph_add_node", node_matches[k])]
                 \o [k \in 1..Len(edge_matches) |-> GraphEdge(edge_matches[k][1], edge_matches[k][2])]
                 \o (IF AnyInText(t, {"dfs", "depth.*first"}) THEN <<GraphNode("graph_dfs", "A")>>
                     ELSE IF AnyInText(t, {"bfs", "breadth.*first"}) THEN <<GraphNode("graph_bfs", "A")>>
                     ELSE <<>>)
    IN  IF found # <<>> THEN found ELSE GraphSeed

HashKey(type, key) == [type |-> type, key |-> key]
HashSeed == <<HashKey("hash_insert", "John"), HashKey("hash_insert", "Jane"), HashKey("hash_search", "John"),
              HashKey("hash_insert", "Bob"), HashKey("hash_delete", "Jane")>>

HashBranch(t) ==
    LET ins == FindAllP(hash_patterns, 1, t)
        sea == FindAllP(hash_patterns, 2, t)
        del == FindAllP(hash_patterns, 3, t)
        found == [k \in 1..Len(ins) |-> HashKey("hash_insert", ins[k])]
                 \o [k \in 1..Len(sea) |-> HashKey("hash_search", sea[k])]
                 \o [k \in 1..Len(del) |-> HashKey("hash_delete", del[k])]
    IN  IF found # <<>> THEN found ELSE HashSeed

ArrayInsert(value, index) == [type |-> "array_insert", value |-> value, index |-> index]
ArrayDelete(index) == [type |-> "array_delete", index |-> index]
ArraySeed == <<OpV("array_append", "10"), OpV("array_append", "20"), ArrayInsert("15", "1"), ArrayDelete("0")>>

\* match[1] or '0'
OrZero(s) == IF s = "" THEN "0" ELSE s

ArrayBranch(t) ==
    LET ins == FindAll(array_insert_matches, t)
        app == FindAll(array_append_matches, t)
        del == FindAll(array_delete_matches, t)
        found == [k \in 1..Len(ins) |-> ArrayInsert(ins[k][1], OrZero(ins[k][2]))]
                 \o WithValue("array_append", app)
                 \o [k \in 1..Len(del) |-> ArrayDelete(OrZero(del[k]))]
    IN  IF found # <<>> THEN found ELSE ArraySeed

\* the if / elif chain over the structure keywords
KeywordBranch(t) ==
    IF InText(t, "stack") THEN StackBranch(t)
    ELSE IF InText(t, "queue") THEN QueueBranch(t)
    ELSE IF AnyInText(t, {"tree", "binary tree", "bst", "binary search tree", "node", "struct node"})
         THEN TreeBranch(t)
    ELSE IF AnyInText(t, {"linked list", "linkedlist", "list"}) THEN ListBranch(t)
    ELSE IF InText(t, "graph") THEN GraphBranch(t)
    ELSE IF AnyInText(t, {"hash", "hash table", "hashtable"}) THEN HashBranch(t)
    ELSE IF InText(t, "array") THEN ArrayBranch(t)
    ELSE <<>>

\* what one item of a numbered or bulleted list adds
NumberedItem(t, op_text) ==
    IF InText(t, "stack") \/ OpTextWords(op_text) \cap {"push", "pop"} # {}
    THEN IF push_match(op_text) # <<>> THEN <<OpV("stack_push", push_match(op_text)[1])>>
         ELSE IF pop_search(op_text) THEN <<Op0("stack_pop")>>
         ELSE <<>>
    ELSE IF InText(t, "queue") \/ OpTextWords(op_text) \cap {"enqueue", "dequeue"} # {}
    THEN IF enqueue_match(op_text) # <<>> THEN <<OpV("queue_enqueue", enqueue_match(op_text)[1])>>
         ELSE IF dequeue_search(op_text) THEN <<Op0("queue_dequeue")>>
         ELSE <<>>
    ELSE <<>>

NumberedFallback(t) ==
    LET items == FindAll(numbered_operations, t)
    IN  Flatten([k \in 1..Len(items) |-> NumberedItem(t, items[k])])

\* push each of the first n values, a removal after the third, one at the end
RECURSIVE PushWithMiddleRemoval(_, _, _, _)
PushWithMiddleRemoval(values, k, addType, removeType) ==
    IF k > Len(values) THEN <<>>
    ELSE <<OpV(addType, values[k])>>
         \o (IF k - 1 = 2 THEN <<Op0(removeType)>> ELSE <<>>)
         \o PushWithMiddleRemoval(values, k + 1, addType, removeType)

FromValues(values, addType, removeType) ==
    LET ops == PushWithMiddleRemoval(Prefix(values, 4), 1, addType, removeType)
    IN  IF Len(ops) > 1 THEN Append(ops, Op0(removeType)) ELSE ops

StackSeed == <<OpV("stack_push", "10"), OpV("stack_push", "20"), Op0("stack_pop"), OpV("stack_push", "30")>>
QueueSeed == <<OpV("queue_enqueue", "A"), OpV("queue_enqueue", "B"), Op0("queue_dequeue"), OpV("queue_enqueue", "C")>>

\* a value fallback that builds the list from a single value already
ValueFallback_OneValueEnough(t) ==
    LET unique_values == Unique(FindAll(all_values, t))
    IN  IF unique_values # <<>> /\ Len(unique_values) >= 1
        THEN IF InText(t, "stack") \/ AnyInText(t, {"push", "pop", "lifo"})
             THEN FromValues(unique_values, "stack_push", "stack_pop")
             ELSE IF InText(t, "queue") \/ AnyInText(t, {"enqueue", "dequeue", "fifo"})
             THEN FromValues(unique_values, "queue_enqueue", "queue_dequeue")
             ELSE Append(WithValue("stack_push", Prefix(unique_values, 3)), Op0("stack_pop"))
        ELSE IF InText(t, "stack") \/ AnyInText(t, {"push", "pop", "lifo"}) THEN StackSeed
             ELSE IF InText(t, "queue") \/ AnyInText(t, {"enqueue", "dequeue", "fifo"}) THEN QueueSeed
             ELSE IF AnyInText(t, {"data structure", "push", "pop", "insert", "delete"}) THEN StackSeed
             ELSE <<>>

ValueFallback(t) ==
    LET unique_values == Unique(FindAll(all_values, t))
    IN  IF unique_values # <<>> /\ Len(unique_values) >= 2
        THEN IF InText(t, "stack") \/ AnyInText(t, {"push", "pop", "lifo"})
             THEN FromValues(unique_values, "stack_push", "stack_pop")
             ELSE IF InText(t, "queue") \/ AnyInText(t, {"enqueue", "dequeue", "fifo"})
             THEN FromValues(unique_values, "queue_enqueue", "queue_dequeue")
             ELSE Append(WithValue("stack_push", Prefix(unique_values, 3)), Op0("stack_pop"))
        ELSE IF InText(t, "stack") \/ AnyInText(t, {"push", "pop", "lifo"}) THEN StackSeed
             ELSE IF InText(t, "queue") \/ AnyInText(t, {"enqueue", "dequeue", "fifo"}) THEN QueueSeed
             ELSE IF AnyInText(t, {"data structure", "push", "pop", "insert", "delete"}) THEN StackSeed
             ELSE <<>>

ExtractDataStructureOperations(t) ==
    LET byKeyword == KeywordBranch(t)
        numbered  == IF byKeyword = <<>> THEN NumberedFallback(t) ELSE byKeyword
    IN  IF numbered = <<>> THEN ValueFallback(t) ELSE numbered

\* _extract_elements; the extractors of the other content types are not
\* modelled, their result is the one opaque element below
DomainElement(ct) == [type |-> "domain_element", content_type |-> ct]

\* _extract_general_concepts: one slide per non-empty sentence; no line that
\* scores zero for every content type holds a full stop, so a non-empty
\* general text is one sentence
GeneralConcepts(t) == IF t = <<>> THEN <<>> ELSE <<[type |-> "text_slide"]>>

ExtractElements(t, ct) ==
    IF ct = "data_structures" THEN ExtractDataStructureOperations(t)
    ELSE IF ct = "general" THEN GeneralConcepts(t)
    ELSE <<DomainElement(ct)>>


\* ------------------------------------------- UniversalAnimationEngine
\* _create_data_structure_animation: the first kind, in the order of the
\* if / elif chain, that any operation of the list starts with
Dispatch(ops) ==
    LET kinds == Kinds(ops)
    IN  IF "stack" \in kinds THEN "stack"
        ELSE IF "queue" \in kinds THEN "queue"
        ELSE IF "array" \in kinds THEN "array"
        ELSE IF "tree" \in kinds THEN "tree"
        ELSE IF "list" \in kinds THEN "list"
        ELSE IF "graph" \in kinds THEN "graph"
        ELSE IF "hash" \in kinds THEN "hash"
        ELSE "general"

\* int(s) for the digit strings of the model
IntOf(s) ==
    CASE s = "-1" -> -1  [] s = "0" -> 0    [] s = "1" -> 1    [] s = "3" -> 3
      [] s = "5" -> 5    [] s = "7" -> 7    [] s = "10" -> 10  [] s = "12" -> 12
      [] s = "15" -> 15  [] s = "18" -> 18  [] s = "20" -> 20  [] s = "22" -> 22
      [] s = "30" -> 30
      [] s = "40" -> 40  [] s = "50" -> 50  [] s = "60" -> 60  [] s = "70" -> 70
      [] s = "80" -> 80  [] s = "100" -> 100  [] s = "999" -> 999

\* a stack whose pop removes the bottom element
StackApply_PopsBottom(st, op) ==
    IF op.type = "stack_push" THEN Append(st, op.value)
    ELSE IF op.type = "stack_pop" /\ st # <<>> THEN Tail(st)
    ELSE st

\* _animate_stack, "Execute operation"
StackApply(st, op) ==
    IF op.type = "stack_push" THEN Append(st, op.value)
    ELSE IF op.type = "stack_pop" /\ st # <<>> THEN SubSeq(st, 1, Len(st) - 1)
    ELSE st

\* a queue whose dequeue removes the element enqueued last
QueueApply_PopsLast(q, op) ==
    IF op.type = "queue_enqueue" THEN Append(q, op.value)
    ELSE IF op.type = "queue_dequeue" /\ q # <<>> THEN SubSeq(q, 1, Len(q) - 1)
    ELSE q

\* _animate_queue, "Execute operation"
QueueApply(q, op) ==
    IF op.type = "queue_enqueue" THEN Append(q, op.value)
    ELSE IF op.type = "queue_dequeue" /\ q # <<>> THEN Tail(q)
    ELSE q

max_size == 10

\* list.insert(index, value): a negative index counts from the end, an index
\* outside the list is moved to the nearer end
ListInsert(a, index, value) ==
    LET n == Len(a)
        fromEnd == IF index < 0 THEN index + n ELSE index
        at == IF fromEnd < 0 THEN 0 ELSE IF fromEnd > n THEN n ELSE fromEnd
    IN  SubSeq(a, 1, at) \o <<value>> \o SubSeq(a, at + 1, n)

\* list.pop(index) for 0 <= index < len
ListPop(a, index) == SubSeq(a, 1, index) \o SubSeq(a, index + 2, Len(a))

\* an array whose append does not look at the capacity
ArrayApply_AppendUnchecked(a, op) ==
    IF op.type = "array_insert"
    THEN LET index == IF "index" \in DOMAIN op THEN IntOf(op.index) ELSE Len(a)
         IN  IF index <= Len(a) /\ Len(a) < max_size THEN ListInsert(a, index, op.value) ELSE a
    ELSE IF op.type = "array_delete"
    THEN LET index == IF "index" \in DOMAIN op THEN IntOf(op.index) ELSE Len(a) - 1
         IN  IF 0 <= index /\ index < Len(a) THEN ListPop(a, index) ELSE a
    ELSE IF op.type = "array_append" THEN Append(a, op.value)
    ELSE a

\* _animate_array, "Execute operation"
ArrayApply(a, op) ==
    IF op.type = "array_insert"
    THEN LET index == IF "index" \in DOMAIN op THEN IntOf(op.index) ELSE Len(a)
         IN  IF index <= Len(a) /\ Len(a) < max_size THEN ListInsert(a, index, op.value) ELSE a
    ELSE IF op.type = "array_delete"
    THEN LET index == IF "index" \in DOMAIN op THEN IntOf(op.index) ELSE Len(a) - 1
         IN  IF 0 <= index /\ index < Len(a) THEN ListPop(a, index) ELSE a
    ELSE IF op.type = "array_append" /\ Len(a) < max_size THEN Append(a, op.value)
    ELSE a

\* _animate_tree: a tree is a function from the paths of its nodes (sequences
\* of "L" and "R" from the root) to the values stored there
EmptyTree == [p \in {} |-> ""]

\* insert_node
RECURSIVE InsertBelow(_, _, _)
InsertBelow(tree, path, value) ==
    IF path \notin DOMAIN tree THEN [p \in DOMAIN tree \cup {path} |-> IF p = path THEN value ELSE tree[p]]
    ELSE IF IntOf(value) < IntOf(tree[path]) THEN InsertBelow(tree, Append(path, "L"), value)
    ELSE InsertBelow(tree, Append(path, "R"), value)

\* an insertion that sends equal values to the left
RECURSIVE InsertBelow_TiesLeft(_, _, _)
InsertBelow_TiesLeft(tree, path, value) ==
    IF path \notin DOMAIN tree THEN [p \in DOMAIN tree \cup {path} |-> IF p = path THEN value ELSE tree[p]]
    ELSE IF IntOf(value) <= IntOf(tree[path]) THEN InsertBelow_TiesLeft(tree, Append(path, "L"), value)
    ELSE InsertBelow_TiesLeft(tree, Append(path, "R"), value)

insert_node_TiesLeft(tree, value) == InsertBelow_TiesLeft(tree, <<>>, value)

insert_node(tree, value) == InsertBelow(tree, <<>>, value)

\* _animate_tree, the loop body
TreeApply(tree, op) == IF op.type = "tree_insert" THEN insert_node(tree, op.value) ELSE tree

\* draw_tree_frame(highlight_node=int(value)), draw_nodes: the places of the
\* nodes drawn gold; a frame of another operation type is not drawn
TreeHighlight(tree, op, before) ==
    IF op.type = "tree_insert" THEN {path \in DOMAIN tree : IntOf(tree[path]) = IntOf(op.value)}
    ELSE before

\* inorder_traversal
RECURSIVE InorderBelow(_, _)
InorderBelow(tree, path) ==
    IF path \notin DOMAIN tree THEN <<>>
    ELSE InorderBelow(tree, Append(path, "L")) \o <<tree[path]>> \o InorderBelow(tree, Append(path, "R"))

inorder_traversal(tree) == InorderBelow(tree, <<>>)

\* _animate_linked_list, "Execute operation": the list is the sequence of the
\* values met from head along next
ListApply(h, op) ==
    IF op.type = "list_insert" THEN <<op.value>> \o h
    ELSE IF op.type = "list_delete" /\ h # <<>> THEN Tail(h)
    ELSE IF op.type = "list_append" THEN Append(h, op.value)
    ELSE h

\* draw_linked_list_frame draws the first eight nodes
shown_nodes == 8

\* draw_linked_list_frame(highlight_value=value): the positions, from the
\* head, of the nodes drawn gold; the frame after a delete or after an
\* operation of another type has no highlight
ListHighlight(h, op) ==
    IF op.type \in {"list_insert", "list_append"}
    THEN {k \in 1..(IF Len(h) < shown_nodes THEN Len(h) ELSE shown_nodes) : h[k] = op.value}
    ELSE {}

\* _animate_graph: nodes = {}, adjacency = {}, edge_weights = {}, visited_order = []
EmptyGraph ==
    [nodes |-> <<>>, adjacency |-> [v \in {} |-> <<>>],
     edge_weights |-> [e \in {} |-> 0], visited_order |-> <<>>]

None == "None"

InSeq(x, s) == \E k \in 1..Len(s) : s[k] = x

\* nodes[node] = (0.5, 0.5): a new key goes to the end of the dictionary
AddNodeKey(ns, node) == IF InSeq(node, ns) THEN ns ELSE Append(ns, node)

\* if node not in adjacency: adjacency[node] = []
AddAdjacencyKey(adj, node) ==
    IF node \in DOMAIN adj THEN adj
    ELSE [v \in DOMAIN adj \cup {node} |-> IF v = node THEN <<>> ELSE adj[v]]

\* appending only what is not in the list yet
RECURSIVE AppendNew(_, _)
AppendNew(s, more) ==
    IF more = <<>> THEN s
    ELSE AppendNew(IF InSeq(Head(more), s) THEN s ELSE Append(s, Head(more)), Tail(more))

\* a graph whose add_edge appends the neighbour on every call
GraphApply_AppendsAlways(g, op) ==
    IF op.type = "graph_add_node"
    THEN [g EXCEPT !.nodes = AddNodeKey(g.nodes, op.node),
                   !.adjacency = AddAdjacencyKey(g.adjacency, op.node)]
    ELSE IF op.type = "graph_add_edge"
    THEN LET from_node == op.from_node
             to_node == op.to_node
             weight == IF "weight" \in DOMAIN op THEN op.weight ELSE 1
             ns == AddNodeKey(AddNodeKey(g.nodes, from_node), to_node)
             adj == AddAdjacencyKey(AddAdjacencyKey(g.adjacency, from_node), to_node)
             edge_key == <<from_node, to_node>>
         IN  [g EXCEPT !.nodes = ns,
                       !.adjacency = [adj EXCEPT ![from_node] = Append(@, to_node)],
                       !.edge_weights = [e \in DOMAIN g.edge_weights \cup {edge_key} |->
                                            IF e = edge_key THEN weight ELSE g.edge_weights[e]]]
    ELSE IF op.type \in {"graph_dfs", "graph_bfs"}
    THEN LET start_node == IF "node" \in DOMAIN op THEN op.node
                           ELSE IF g.nodes # <<>> THEN g.nodes[1] ELSE None
         IN  IF start_node # None /\ ~InSeq(start_node, g.visited_order)
             THEN [g EXCEPT !.visited_order =
                     IF start_node \in DOMAIN g.adjacency
                     THEN AppendNew(Append(@, start_node), Prefix(g.adjacency[start_node], 2))
                     ELSE Append(@, start_node)]
             ELSE g
    ELSE g

\* _animate_graph, "Execute operation"
GraphApply(g, op) ==
    IF op.type = "graph_add_node"
    THEN [g EXCEPT !.nodes = AddNodeKey(g.nodes, op.node),
                   !.adjacency = AddAdjacencyKey(g.adjacency, op.node)]
    ELSE IF op.type = "graph_add_edge"
    THEN LET from_node == op.from_node
             to_node == op.to_node
             weight == IF "weight" \in DOMAIN op THEN op.weight ELSE 1
             ns == AddNodeKey(AddNodeKey(g.nodes, from_node), to_node)
             adj == AddAdjacencyKey(AddAdjacencyKey(g.adjacency, from_node), to_node)
             edge_key == <<from_node, to_node>>
         IN  [g EXCEPT !.nodes = ns,
                       !.adjacency = IF InSeq(to_node, adj[from_node]) THEN adj
                                     ELSE [adj EXCEPT ![from_node] = Append(@, to_node)],
                       !.edge_weights = [e \in DOMAIN g.edge_weights \cup {edge_key} |->
                                            IF e = edge_key THEN weight ELSE g.edge_weights[e]]]
    ELSE IF op.type \in {"graph_dfs", "graph_bfs"}
    THEN LET start_node == IF "node" \in DOMAIN op THEN op.node
                           ELSE IF g.nodes # <<>> THEN g.nodes[1] ELSE None
         IN  IF start_node # None /\ ~InSeq(start_node, g.visited_order)
             THEN [g EXCEPT !.visited_order =
                     IF start_node \in DOMAIN g.adjacency
                     THEN AppendNew(Append(@, start_node), Prefix(g.adjacency[start_node], 2))
                     ELSE Append(@, start_node)]
             ELSE g
    ELSE g

table_size == 7

\* hash_table = [[] for _ in range(table_size)], collision_count = 0
EmptyTable == [hash_table |-> [i \in 0..(table_size - 1) |-> <<>>], collision_count |-> 0]

HashTypes == {"hash_insert", "hash_search", "hash_delete"}

\* list.remove(key)
RemoveKey(chain, key) ==
    LET at == CHOOSE k \in 1..Len(chain) : chain[k] = key /\ \A j \in 1..(k - 1) : chain[j] # key
    IN  SubSeq(chain, 1, at - 1) \o SubSeq(chain, at + 1, Len(chain))

\* a hash table whose delete empties the chain of the bucket
HashApply_DeleteClearsChain(t, index, op) ==
    IF op.type = "hash_insert"
    THEN [hash_table |-> IF InSeq(op.key, t.hash_table[index]) THEN t.hash_table
                         ELSE [t.hash_table EXCEPT ![index] = Append(@, op.key)],
          collision_count |-> IF t.hash_table[index] # <<>>
                              THEN t.collision_count + 1 ELSE t.collision_count]
    ELSE IF op.type = "hash_delete"
    THEN [t EXCEPT !.hash_table[index] = <<>>]
    ELSE t

\* _animate_hash_table, "Execute operation"; index is hash_function(key)
HashApply(t, index, op) ==
    IF op.type = "hash_insert"
    THEN [hash_table |-> IF InSeq(op.key, t.hash_table[index]) THEN t.hash_table
                         ELSE [t.hash_table EXCEPT ![index] = Append(@, op.key)],
          collision_count |-> IF t.hash_table[index] # <<>>
                              THEN t.collision_count + 1 ELSE t.collision_count]
    ELSE IF op.type = "hash_delete" /\ InSeq(op.key, t.hash_table[index])
    THEN [t EXCEPT !.hash_table[index] = RemoveKey(@, op.key)]
    ELSE t

\* hash_function: hash(str(key)) % table_size.  The hash of a string depends
\* on the hash seed of the process, so the value for a key is any bucket index;
\* within one process it is the same every time the key is hashed.
HashValues(seed, key) == IF key \in DOMAIN seed THEN {seed[key]} ELSE 0..(table_size - 1)

Hashed(seed, key, index) ==
    [k \in DOMAIN seed \cup {key} |-> IF k = key THEN index ELSE seed[k]]

\* frames per second of the engine, and the frames the simulators save
fps == 30
pre_hold == 45
post_hold == 60
initial_hold == 30
final_hold == 90

\* the frames saved before the loop: the initial frame, held for a second by
\* the tree, linked-list, graph and hash-table simulators
InitialFrames(sim) == IF sim \in {"stack", "queue", "array"} THEN 1 ELSE 1 + initial_hold

\* a loop that does not save the frame showing the operation about to happen
FramesOfStep_NoPreFrame(sim, op) ==
    IF sim \in {"stack", "queue", "array"} THEN 1 + post_hold
    ELSE IF sim = "tree" /\ op.type # "tree_insert" THEN 0
    ELSE pre_hold + 1 + post_hold

\* the frames saved by one iteration of the loop
FramesOfStep(sim, op) ==
    IF sim \in {"stack", "queue", "array"} THEN 1 + 1 + post_hold
    ELSE IF sim = "tree" /\ op.type # "tree_insert" THEN 0
    ELSE 1 + pre_hold + 1 + post_hold

\* the frames saved after the loop
FinalFrames(sim) == IF sim \in {"stack", "queue", "array"} THEN 0 ELSE final_hold

\* the files temp_frame_0000.png .. temp_frame_(n-1).png
FrameFiles(n) == 0..(n - 1)


\* ------------------------------------------------- inputs of the engine
StackOps == {OpV("stack_push", "10"), OpV("stack_push", "20"), Op0("stack_pop")}
QueueOps == {OpV("queue_enqueue", "A"), OpV("queue_enqueue", "B"), Op0("queue_dequeue")}
TreeOps  == {OpV("tree_insert", v) : v \in {"20", "30", "40", "50", "70"}}
ArrayOps == {OpV("array_append", "10"), OpV("array_insert", "15"),
             ArrayInsert("15", "0"), ArrayInsert("15", "1"), ArrayInsert("15", "999"),
             ArrayInsert("15", "-1"),
             Op0("array_delete"), ArrayDelete("0"), ArrayDelete("999")}
ListOps  == {OpV("list_insert", "10"), OpV("list_insert", "20"), OpV("list_append", "30"),
             Op0("list_delete")}
GraphOps == {GraphNode("graph_add_node", "A"), GraphEdge("A", "B"), GraphEdge("A", "C"),
             GraphEdge("A", "D"), GraphNode("graph_dfs", "A"), GraphNode("graph_bfs", "A"),
             Op0("graph_bfs")}
HashOps  == {HashKey("hash_insert", "15"), HashKey("hash_insert", "22"),
             HashKey("hash_search", "15"), HashKey("hash_delete", "15"),
             HashKey("hash_delete", "22")}
MixOps   == {OpV("stack_push", "10"), Op0("stack_pop"), OpV("queue_enqueue", "A"), Op0("queue_dequeue"),
             OpV("array_append", "10"), ArrayInsert("15", "0"), OpV("tree_insert", "50"),
             OpV("list_insert", "10"), GraphNode("graph_add_node", "A"), HashKey("hash_insert", "John")}

OpLists == SeqsUpTo(StackOps, MaxOps) \cup SeqsUpTo(QueueOps, MaxOps)
           \cup SeqsUpTo(TreeOps, MaxOps) \cup SeqsUpTo(MixOps, MaxMix)
           \cup SeqsUpTo(ArrayOps, MaxMix) \cup SeqsUpTo(ListOps, MaxStructOps)
           \cup SeqsUpTo(GraphOps, MaxStructOps) \cup SeqsUpTo(HashOps, MaxHashOps)

NoOperation == [type |-> "none"]

\* durations are counted in half seconds
slide_duration == 8
transition_duration == 1
NoAudio == 0
SlideLists == SeqsUpTo({4, 8}, MaxSlides) \ {<<>>}

Runs == {1, 2}
NoFiles == [frames |-> [i \in {} |-> <<0, 0>>], narration |-> 0]

\* ----------------------------------------------------------- the state
\* the simulators before their loops, nothing written, nothing assembled
\* --------------------------------------------- TextToAnimationController
NoCall == [handler |-> "none"]
NoResponse == [handler |-> "none"]

\* a file name: a uuid and what follows it
FileName(id, suffix) == [id |-> id, suffix |-> suffix]

\* the extensions of the files a client sends
FileTypes == {"png", "pdf", "txt"}

\* _allowed_file
allowed_extensions == {"png", "jpg", "jpeg", "pdf"}
AllowedFile(extension) == extension \in allowed_extensions

\* the file ids a client asks about: those of the upload folder and one that
\* was never handed out
UnknownFile == FileName(0, "png")
Requests == uploads \cup {UnknownFile}

\* filename.startswith(file_id): uuids have one length, so the uuids are equal
\* and what follows the uuid begins with the extension of the file id; no
\* suffix of the model begins with another one
StartsWith(filename, file_id) == filename.id = file_id.id /\ filename.suffix = file_id.suffix

\* filename.endswith('_animation.mp4')
EndsWithAnimation(filename) == filename.suffix = "_animation.mp4"

\* output_path.replace('.mp4', '_with_audio.mp4')
WithAudio(output_path) == FileName(output_path.id, "_animation_with_audio.mp4")
\* output_path.replace('.mp4', '.png')
StaticImage(output_path) == FileName(output_path.id, "_animation.png")

InitController ==
    /\ uploads = {}
    /\ generated = {}
    /\ issued = 0
    /\ call = NoCall
    /\ processed = [file_id \in {} |-> <<>>]
    /\ response = NoResponse

InitEngine ==
    /\ head = <<>>
    /\ nodes = EmptyGraph.nodes
    /\ adjacency = EmptyGraph.adjacency
    /\ edge_weights = EmptyGraph.edge_weights
    /\ visited_order = EmptyGraph.visited_order
    /\ hash_table = EmptyTable.hash_table
    /\ collision_count = EmptyTable.collision_count
    /\ hash_seed = [k \in {} |-> 0]
    /\ replay = [hash_table |-> EmptyTable.hash_table, collision_count |-> 0,
                 hash_seed |-> [k \in {} |-> 0]]
    /\ frame_files = {}
    /\ output_files = {}
    /\ video_frames = 0
    /\ returned = "none"
    /\ final_video = [duration |-> 0, audio |-> 0]
    /\ runs = [r \in Runs |-> [pc |-> "render", frame_count |-> 0, video |-> <<>>, narration |-> 0]]
    /\ cwd = NoFiles
    /\ highlighted = {}
    /\ InitController

InitRun ==
    /\ primary_type = "none"
    /\ content_scores = [ct \in {} |-> 0]
    /\ elements = <<>>
    /\ raised = "none"
    /\ simulator = "none"
    /\ step = 0
    /\ operation = NoOperation
    /\ stack = <<>>
    /\ queue = <<>>
    /\ array = <<>>
    /\ root = EmptyTree
    /\ frame_count = 0
    /\ clips = <<>>
    /\ audio_duration = NoAudio
    /\ InitEngine

\* a note text is submitted
InitText ==
    /\ text \in SeqsUpTo(Lines, MaxLines)
    /\ pc = "start"
    /\ operations = <<>>
    /\ InitRun

\* an operation list is handed to the engine directly
InitSim ==
    /\ text = <<>>
    /\ pc = "engine"
    /\ operations \in OpLists
    /\ InitRun

\* the array simulator is fed a list of array operations one at a time; the
\* initial frame is on disk
InitArray ==
    /\ text = <<>>
    /\ pc = "stream"
    /\ operations = <<>>
    /\ primary_type = "none"
    /\ content_scores = [ct \in {} |-> 0]
    /\ elements = <<>>
    /\ raised = "none"
    /\ simulator = "array"
    /\ step = 0
    /\ operation = NoOperation
    /\ stack = <<>>
    /\ queue = <<>>
    /\ array = <<>>
    /\ root = EmptyTree
    /\ head = <<>>
    /\ nodes = EmptyGraph.nodes
    /\ adjacency = EmptyGraph.adjacency
    /\ edge_weights = EmptyGraph.edge_weights
    /\ visited_order = EmptyGraph.visited_order
    /\ hash_table = EmptyTable.hash_table
    /\ collision_count = EmptyTable.collision_count
    /\ hash_seed = [k \in {} |-> 0]
    /\ replay = [hash_table |-> EmptyTable.hash_table, collision_count |-> 0,
                 hash_seed |-> [k \in {} |-> 0]]
    /\ frame_count = InitialFrames("array")
    /\ frame_files = FrameFiles(InitialFrames("array"))
    /\ output_files = {}
    /\ video_frames = 0
    /\ returned = "none"
    /\ clips = <<>>
    /\ audio_duration = NoAudio
    /\ final_video = [duration |-> 0, audio |-> 0]
    /\ runs = [r \in Runs |-> [pc |-> "render", frame_count |-> 0, video |-> <<>>, narration |-> 0]]
    /\ cwd = NoFiles
    /\ highlighted = {}
    /\ InitController

\* the hash-table simulator is given the same list in two processes
InitReplay ==
    /\ text = <<>>
    /\ pc = "replay"
    /\ operations \in SeqsUpTo(HashOps, MaxReplayOps)
    /\ InitRun

\* a video made of clips and a narration track are to be put together
InitAudio ==
    /\ text = <<>>
    /\ pc = "mux"
    /\ operations = <<>>
    /\ primary_type = "none"
    /\ content_scores = [ct \in {} |-> 0]
    /\ elements = <<>>
    /\ raised = "none"
    /\ simulator = "none"
    /\ step = 0
    /\ operation = NoOperation
    /\ stack = <<>>
    /\ queue = <<>>
    /\ array = <<>>
    /\ root = EmptyTree
    /\ frame_count = 0
    /\ clips \in SlideLists
    /\ audio_duration \in 0..MaxAudio
    /\ InitEngine

\* two runs start in the same working directory
InitTwoRuns ==
    /\ text = <<>>
    /\ pc = "runs"
    /\ operations = <<>>
    /\ InitRun

\* ContentAnalyzer.analyze_content; the returned dictionary reads
\* content_scores[primary_type]
Analyze ==
    /\ pc = "start"
    /\ LET scores == Scores(text)
           ptype  == PrimaryType(scores)
       IN  /\ content_scores' = scores
           /\ primary_type' = ptype
           /\ elements' = ExtractElements(text, ptype)
           /\ IF ptype \in DOMAIN scores
              THEN pc' = "analyzed" /\ raised' = "none"
              ELSE pc' = "raised" /\ raised' = "KeyError"
    /\ UNCHANGED <<text, operations, simulator, step, operation, stack, queue, array, root,
                   list_graph, hashing, frames, encoding, narration, concurrent, highlighted, service>>

\* UniversalAnimationEngine.create_animation
CreateAnimation ==
    /\ pc = "analyzed"
    /\ IF primary_type = "data_structures"
       THEN operations' = elements /\ pc' = "engine" /\ UNCHANGED simulator
       ELSE simulator' = "domain_animation" /\ pc' = "done" /\ UNCHANGED operations
    /\ UNCHANGED <<text, primary_type, content_scores, elements, raised, step, operation,
                   stack, queue, array, root,
                   list_graph, hashing, frames, encoding, narration, concurrent, highlighted, service>>

\* UniversalAnimationEngine._create_data_structure_animation, and the chosen
\* simulator up to its loop: the initial frame is saved
CreateDataStructureAnimation ==
    /\ pc = "engine"
    /\ simulator' = Dispatch(operations)
    /\ pc' = "sim"
    /\ frame_count' = IF simulator' = "general" THEN 0 ELSE InitialFrames(simulator')
    /\ frame_files' = frame_files \cup FrameFiles(frame_count')
    /\ UNCHANGED <<text, primary_type, content_scores, elements, raised, operations, step,
                   operation, stack, queue, array, root,
                   list_graph, hashing, encoding, narration, concurrent, highlighted, service>>

\* the frames one iteration of a simulator loop saves
SaveFrames(sim, op) ==
    /\ frame_count' = frame_count + FramesOfStep(sim, op)
    /\ frame_files' = frame_files \cup FrameFiles(frame_count')

\* one iteration of the loop of _animate_stack
StackStep ==
    /\ pc = "sim" /\ simulator = "stack" /\ step < Len(operations)
    /\ operation' = operations[step + 1]
    /\ stack' = StackApply(stack, operations[step + 1])
    /\ step' = step + 1
    /\ SaveFrames("stack", operations[step + 1])
    /\ UNCHANGED <<text, pc, primary_type, content_scores, elements, raised, operations,
                   simulator, queue, array, root,
                   list_graph, hashing, encoding, narration, concurrent, highlighted, service>>

\* one iteration of the loop of _animate_queue
QueueStep ==
    /\ pc = "sim" /\ simulator = "queue" /\ step < Len(operations)
    /\ operation' = operations[step + 1]
    /\ queue' = QueueApply(queue, operations[step + 1])
    /\ step' = step + 1
    /\ SaveFrames("queue", operations[step + 1])
    /\ UNCHANGED <<text, pc, primary_type, content_scores, elements, raised, operations,
                   simulator, stack, array, root,
                   list_graph, hashing, encoding, narration, concurrent, highlighted, service>>

\* one iteration of the loop of _animate_array
ArrayStep ==
    /\ pc = "sim" /\ simulator = "array" /\ step < Len(operations)
    /\ operation' = operations[step + 1]
    /\ array' = ArrayApply(array, operations[step + 1])
    /\ step' = step + 1
    /\ SaveFrames("array", operations[step + 1])
    /\ UNCHANGED <<text, pc, primary_type, content_scores, elements, raised, operations,
                   simulator, stack, queue, root,
                   list_graph, hashing, encoding, narration, concurrent, highlighted, service>>

\* one iteration of the loop of _animate_tree
TreeStep ==
    /\ pc = "sim" /\ simulator = "tree" /\ step < Len(operations)
    /\ operation' = operations[step + 1]
    /\ root' = TreeApply(root, operations[step + 1])
    /\ highlighted' = TreeHighlight(root', operations[step + 1], highlighted)
    /\ step' = step + 1
    /\ SaveFrames("tree", operations[step + 1])
    /\ UNCHANGED <<text, pc, primary_type, content_scores, elements, raised, operations,
                   simulator, stack, queue, array,
                   list_graph, hashing, encoding, narration, concurrent, service>>

\* one iteration of the loop of _animate_linked_list
ListStep ==
    /\ pc = "sim" /\ simulator = "list" /\ step < Len(operations)
    /\ operation' = operations[step + 1]
    /\ head' = ListApply(head, operations[step + 1])
    /\ highlighted' = ListHighlight(head', operations[step + 1])
    /\ step' = step + 1
    /\ SaveFrames("list", operations[step + 1])
    /\ UNCHANGED <<text, pc, primary_type, content_scores, elements, raised, operations,
                   simulator, stack, queue, array, root,
                   nodes, adjacency, edge_weights, visited_order,
                   hashing, encoding, narration, concurrent, service>>

\* one iteration of the loop of _animate_graph
GraphStep ==
    /\ pc = "sim" /\ simulator = "graph" /\ step < Len(operations)
    /\ operation' = operations[step + 1]
    /\ LET g == GraphApply([nodes |-> nodes, adjacency |-> adjacency,
                            edge_weights |-> edge_weights, visited_order |-> visited_order],
                           operations[step + 1])
       IN  /\ nodes' = g.nodes
           /\ adjacency' = g.adjacency
           /\ edge_weights' = g.edge_weights
           /\ visited_order' = g.visited_order
    /\ step' = step + 1
    /\ SaveFrames("graph", operations[step + 1])
    /\ UNCHANGED <<text, pc, primary_type, content_scores, elements, raised, operations,
                   simulator, stack, queue, array, root, head,
                   hashing, encoding, narration, concurrent, highlighted, service>>

\* one iteration of the loop of _animate_hash_table
HashStep ==
    /\ pc = "sim" /\ simulator = "hash" /\ step < Len(operations)
    /\ operation' = operations[step + 1]
    /\ LET op == operations[step + 1]
           t == [hash_table |-> hash_table, collision_count |-> collision_count]
       IN  IF op.type \in HashTypes
           THEN \E index \in HashValues(hash_seed, op.key) :
                   /\ hash_table' = HashApply(t, index, op).hash_table
                   /\ collision_count' = HashApply(t, index, op).collision_count
                   /\ hash_seed' = Hashed(hash_seed, op.key, index)
           ELSE UNCHANGED <<hash_table, collision_count, hash_seed>>
    /\ step' = step + 1
    /\ SaveFrames("hash", operations[step + 1])
    /\ UNCHANGED <<text, pc, primary_type, content_scores, elements, raised, operations,
                   simulator, stack, queue, array, root, list_graph, replay,
                   encoding, narration, concurrent, highlighted, service>>

\* the end of a simulator loop: the final frames, plt.close()
EndOfLoop ==
    /\ pc = "sim"
    /\ simulator \in {"stack", "queue", "array", "tree", "list", "graph", "hash"}
    /\ step = Len(operations)
    /\ frame_count' = frame_count + FinalFrames(simulator)
    /\ frame_files' = frame_files \cup FrameFiles(frame_count')
    /\ pc' = "frames_to_video"
    /\ UNCHANGED <<text, primary_type, content_scores, elements, raised, operations, simulator,
                   step, operation, stack, queue, array, root,
                   list_graph, hashing, encoding, narration, concurrent, highlighted, service>>

\* _frames_to_video, and the return of the simulator.  Whether moviepy can be
\* imported and the encoder writes the file is up to the installation; either
\* exception is caught inside _frames_to_video.
FramesToVideo ==
    /\ pc = "frames_to_video"
    /\ LET existing_frames == {i \in FrameFiles(frame_count) : i \in frame_files}
       IN  IF existing_frames = {}
           THEN UNCHANGED <<frame_files, output_files, video_frames>>
           ELSE \E written \in BOOLEAN :
                   IF written
                   THEN /\ output_files' = output_files \cup {"mp4"}
                        /\ video_frames' = Cardinality(existing_frames)
                        /\ frame_files' = frame_files \ existing_frames
                   ELSE /\ output_files' = IF 0 \in frame_files THEN output_files \cup {"png"}
                                           ELSE output_files
                        /\ UNCHANGED <<frame_files, video_frames>>
    /\ returned' = "output_path"
    /\ pc' = "done"
    /\ UNCHANGED <<text, primary_type, content_scores, elements, raised, operations, simulator,
                   step, operation, stack, queue, array, root, frame_count,
                   list_graph, hashing, narration, concurrent, highlighted, service>>

\* the general animation runs to its end
OtherAnimation ==
    /\ pc = "sim" /\ simulator = "general"
    /\ pc' = "done"
    /\ UNCHANGED <<text, primary_type, content_scores, elements, raised, operations, simulator,
                   step, operation, stack, queue, array, root,
                   list_graph, hashing, frames, encoding, narration, concurrent, highlighted, service>>

\* one iteration of the loop of _animate_array, the list being supplied one
\* operation at a time
ArrayStream ==
    /\ pc = "stream" /\ step < MaxArrayOps
    /\ \E op \in ArrayOps :
          /\ operation' = op
          /\ array' = ArrayApply(array, op)
          /\ SaveFrames("array", op)
    /\ step' = step + 1
    /\ UNCHANGED <<text, pc, primary_type, content_scores, elements, raised, operations,
                   simulator, stack, queue, root,
                   list_graph, hashing, encoding, narration, concurrent, highlighted, service>>

\* the supplied list ends
ArrayStreamEnd ==
    /\ pc = "stream"
    /\ pc' = "frames_to_video"
    /\ UNCHANGED <<text, primary_type, content_scores, elements, raised, operations, simulator,
                   step, operation, stack, queue, array, root,
                   list_graph, hashing, frames, encoding, narration, concurrent, highlighted, service>>

\* one iteration of the loop of _animate_hash_table in each of two processes
\* that were given the same list
HashReplayStep ==
    /\ pc = "replay" /\ step < Len(operations)
    /\ operation' = operations[step + 1]
    /\ LET op == operations[step + 1]
           t == [hash_table |-> hash_table, collision_count |-> collision_count]
           u == [hash_table |-> replay.hash_table, collision_count |-> replay.collision_count]
       IN  \E index \in HashValues(hash_seed, op.key), other \in HashValues(replay.hash_seed, op.key) :
              /\ hash_table' = HashApply(t, index, op).hash_table
              /\ collision_count' = HashApply(t, index, op).collision_count
              /\ hash_seed' = Hashed(hash_seed, op.key, index)
              /\ replay' = [hash_table |-> HashApply(u, other, op).hash_table,
                            collision_count |-> HashApply(u, other, op).collision_count,
                            hash_seed |-> Hashed(replay.hash_seed, op.key, other)]
    /\ step' = step + 1
    /\ UNCHANGED <<text, pc, primary_type, content_scores, elements, raised, operations,
                   simulator, stack, queue, array, root, list_graph,
                   frames, encoding, narration, concurrent, highlighted, service>>

\* both loops end
HashReplayEnd ==
    /\ pc = "replay" /\ step = Len(operations)
    /\ pc' = "done"
    /\ UNCHANGED <<text, primary_type, content_scores, elements, raised, operations, simulator,
                   step, operation, stack, queue, array, root,
                   list_graph, hashing, frames, encoding, narration, concurrent, highlighted, service>>

\* ---------------------------------------------------- narration and video
Min(a, b) == IF a < b THEN a ELSE b

\* video_clip.loop(duration=...) leaves the last clip shorter or longer so
\* that the whole lasts the duration asked for
loop(cs, duration) == [cs EXCEPT ![Len(cs)] = @ + (duration - SumSeq(cs))]

\* an extension that stops one half second short of the audio
ExtendLast_Short(cs, diff) == [cs EXCEPT ![Len(cs)] = @ + diff - 1]

\* clips[-1] = last.set_duration(last.duration + diff)
ExtendLast(cs, diff) == [cs EXCEPT ![Len(cs)] = @ + diff]

\* a transition clip after every slide but the last
RECURSIVE WithTransitions(_)
WithTransitions(slides) ==
    IF Len(slides) <= 1 THEN slides
    ELSE <<Head(slides), transition_duration>> \o WithTransitions(Tail(slides))

\* create_intelligent_animation, "Adjust durations"; without a narration file
\* AudioFileClip raises and the video is returned as it is
AddNarration ==
    /\ pc = "mux"
    /\ LET video == SumSeq(clips)
       IN  IF audio_duration = NoAudio
           THEN /\ final_video' = [duration |-> video, audio |-> 0]
                /\ returned' = "result_path"
                /\ UNCHANGED clips
           ELSE IF video < audio_duration
           THEN /\ clips' = loop(clips, audio_duration)
                /\ final_video' = [duration |-> SumSeq(clips'), audio |-> audio_duration]
                /\ returned' = "final_output"
           ELSE /\ final_video' = [duration |-> video, audio |-> Min(audio_duration, video)]
                /\ returned' = "final_output"
                /\ UNCHANGED clips
    /\ pc' = "create_intelligent_animation"
    /\ UNCHANGED <<text, primary_type, content_scores, elements, raised, operations, simulator,
                   step, operation, stack, queue, array, root, list_graph, hashing, frames,
                   output_files, video_frames, audio_duration, concurrent, highlighted, service>>

\* the merge of the audio that make_video_from_slides and
\* create_video_from_slides share
MergeAudio(cs) ==
    IF audio_duration = NoAudio
    THEN clips' = cs /\ final_video' = [duration |-> SumSeq(cs), audio |-> 0]
    ELSE /\ clips' = IF SumSeq(cs) < audio_duration
                     THEN ExtendLast(cs, audio_duration - SumSeq(cs)) ELSE cs
         /\ final_video' = [duration |-> SumSeq(clips'), audio |-> audio_duration]

\* pipeline.make_video_from_slides: every slide is shown for slide_duration
MakeVideoFromSlides ==
    /\ pc = "mux"
    /\ MergeAudio([k \in 1..Len(clips) |-> slide_duration])
    /\ returned' = "out_video_path"
    /\ pc' = "make_video_from_slides"
    /\ UNCHANGED <<text, primary_type, content_scores, elements, raised, operations, simulator,
                   step, operation, stack, queue, array, root, list_graph, hashing, frames,
                   output_files, video_frames, audio_duration, concurrent, highlighted, service>>

\* AdvancedVideoGenerator.create_video_from_slides: every slide is shown for
\* its own duration, with a transition clip between two slides
CreateVideoFromSlides ==
    /\ pc = "mux"
    /\ MergeAudio(WithTransitions(clips))
    /\ returned' = "output_path"
    /\ pc' = "create_video_from_slides"
    /\ UNCHANGED <<text, primary_type, content_scores, elements, raised, operations, simulator,
                   step, operation, stack, queue, array, root, list_graph, hashing, frames,
                   output_files, video_frames, audio_duration, concurrent, highlighted, service>>

\* ------------------------------------- two runs in one working directory
\* the files temp_frame_0000.png .. of the first n that exist, in order
RECURSIVE ExistingFrames(_, _)
ExistingFrames(files, n) ==
    IF n = 0 THEN <<>>
    ELSE ExistingFrames(files, n - 1)
         \o (IF (n - 1) \in DOMAIN files THEN <<files[n - 1]>> ELSE <<>>)

\* plt.savefig(f'temp_frame_{frame_count:04d}.png'); frame_count += 1
SaveFrame(r) ==
    /\ pc = "runs" /\ runs[r].pc = "render" /\ runs[r].frame_count < MaxFrames
    /\ LET n == runs[r].frame_count
       IN  /\ cwd' = [cwd EXCEPT !.frames = [i \in DOMAIN @ \cup {n} |->
                                               IF i = n THEN <<r, n>> ELSE @[i]]]
           /\ runs' = [runs EXCEPT ![r].frame_count = n + 1]
    /\ UNCHANGED <<text, pc, primary_type, content_scores, elements, raised, operations,
                   simulator, step, operation, stack, queue, array, root,
                   list_graph, hashing, frames, encoding, narration, highlighted, service>>

\* the loop of the simulator ends; the initial frame at least was saved
RenderEnd(r) ==
    /\ pc = "runs" /\ runs[r].pc = "render" /\ runs[r].frame_count >= 1
    /\ runs' = [runs EXCEPT ![r].pc = "frames_to_video"]
    /\ UNCHANGED <<text, pc, primary_type, content_scores, elements, raised, operations,
                   simulator, step, operation, stack, queue, array, root,
                   list_graph, hashing, frames, encoding, narration, cwd, highlighted, service>>

\* _frames_to_video of a run, the encoder working: the video is made of the
\* files of the first frame_count names that exist, which are then removed
FramesToVideoOf(r) ==
    /\ pc = "runs" /\ runs[r].pc = "frames_to_video"
    /\ LET n == runs[r].frame_count
       IN  /\ runs' = [runs EXCEPT ![r].video = ExistingFrames(cwd.frames, n),
                                   ![r].pc = "text_to_speech"]
           /\ cwd' = [cwd EXCEPT !.frames = [i \in DOMAIN @ \ FrameFiles(n) |-> @[i]]]
    /\ UNCHANGED <<text, pc, primary_type, content_scores, elements, raised, operations,
                   simulator, step, operation, stack, queue, array, root,
                   list_graph, hashing, frames, encoding, narration, highlighted, service>>

\* text_to_speech(narration_text, 'temp_narration.mp3')
TextToSpeech(r) ==
    /\ pc = "runs" /\ runs[r].pc = "text_to_speech"
    /\ cwd' = [cwd EXCEPT !.narration = r]
    /\ runs' = [runs EXCEPT ![r].pc = "mux"]
    /\ UNCHANGED <<text, pc, primary_type, content_scores, elements, raised, operations,
                   simulator, step, operation, stack, queue, array, root,
                   list_graph, hashing, frames, encoding, narration, highlighted, service>>

\* AudioFileClip('temp_narration.mp3') .. os.remove(temp_audio); when the file
\* is gone the exception is caught and the video is returned without audio
MuxNarration(r) ==
    /\ pc = "runs" /\ runs[r].pc = "mux"
    /\ runs' = [runs EXCEPT ![r].narration = cwd.narration, ![r].pc = "done"]
    /\ cwd' = [cwd EXCEPT !.narration = 0]
    /\ UNCHANGED <<text, pc, primary_type, content_scores, elements, raised, operations,
                   simulator, step, operation, stack, queue, array, root,
                   list_graph, hashing, frames, encoding, narration, highlighted, service>>

\* a text is followed up to the loop of the hash-table simulator; the loop
\* itself, with the hash values a process may draw, is followed from the
\* operation lists of SpecSim
\* ------------------------------------------------ the controller's handlers
\* upload_file
UploadFile ==
    /\ \E extension \in FileTypes :
          IF ~AllowedFile(extension)
          THEN /\ response' = [handler |-> "upload_file", code |-> 400, error |-> "File type not supported"]
               /\ UNCHANGED <<uploads, issued>>
          ELSE /\ issued < MaxUuids
               /\ uploads' = uploads \cup {FileName(issued + 1, extension)}
               /\ issued' = issued + 1
               /\ response' = [handler |-> "upload_file", code |-> 200,
                               file_id |-> FileName(issued + 1, extension)]
    /\ UNCHANGED <<generated, call, processed, animation>>

\* process_file, up to the call of run_pipeline
ProcessFile(file_id) ==
    /\ call = NoCall
    /\ LET found == {filename \in uploads : StartsWith(filename, file_id)}
       IN  IF found = {}
           THEN /\ response' = [handler |-> "process_file", code |-> 404, file_id |-> file_id,
                                error |-> "File not found"]
                /\ UNCHANGED <<call, issued>>
           ELSE /\ issued < MaxUuids
                /\ call' = [handler |-> "process_file", file_id |-> file_id,
                            output_path |-> FileName(issued + 1, "_animation.mp4"),
                            pc |-> "run_pipeline"]
                /\ issued' = issued + 1
                /\ UNCHANGED response
    /\ UNCHANGED <<uploads, generated, processed, animation>>

\* run_pipeline, text extraction and summary: an exception leaves the pipeline
RunPipeline ==
    /\ call.handler = "process_file" /\ call.pc = "run_pipeline"
    /\ \E extracted \in BOOLEAN :
          call' = [call EXCEPT !.pc = IF extracted THEN "create_animation" ELSE "raised"]
    /\ UNCHANGED <<uploads, generated, issued, processed, response, animation>>

\* create_intelligent_animation, the animation: the video is written to the
\* output path, or the encoder fails and the first frame is left as an
\* image, or the analysis or the engine raises
AnimateContent ==
    /\ call.handler = "process_file" /\ call.pc = "create_animation"
    /\ \E outcome \in {"mp4", "png", "raised"} :
          /\ generated' = CASE outcome = "mp4" -> generated \cup {call.output_path}
                             [] outcome = "png" -> generated \cup {StaticImage(call.output_path)}
                             [] OTHER           -> generated
          /\ call' = [call EXCEPT !.pc = IF outcome = "raised" THEN "slides" ELSE "narration"]
    /\ UNCHANGED <<uploads, issued, processed, response, animation>>

\* create_intelligent_animation, the narration: the import of line 2216 may
\* fail, which leaves the function; the narrated video is written beside the
\* output path and the video without audio is removed; any failure inside
\* the try returns the video as it is
NarrateAnimation ==
    /\ call.handler = "process_file" /\ call.pc = "narration"
    /\ \E outcome \in {"ImportError", "final_output", "result_path"} :
          /\ outcome = "final_output" => call.output_path \in generated
          /\ generated' = IF outcome = "final_output"
                          THEN (generated \cup {WithAudio(call.output_path)}) \ {call.output_path}
                          ELSE generated
          /\ call' = [call EXCEPT !.pc = IF outcome = "ImportError" THEN "slides" ELSE "returned"]
    /\ UNCHANGED <<uploads, issued, processed, response, animation>>

\* run_pipeline, the fallback to slides: make_video_from_slides writes the
\* output path or raises
SlideFallback ==
    /\ call.handler = "process_file" /\ call.pc = "slides"
    /\ \E written \in BOOLEAN :
          /\ generated' = IF written THEN generated \cup {call.output_path} ELSE generated
          /\ call' = [call EXCEPT !.pc = IF written THEN "returned" ELSE "raised"]
    /\ UNCHANGED <<uploads, issued, processed, response, animation>>

\* process_file, after run_pipeline
ProcessFileAnswer ==
    /\ call.handler = "process_file" /\ call.pc \in {"returned", "raised"}
    /\ IF call.pc = "raised"
       THEN /\ response' = [handler |-> "process_file", code |-> 500, file_id |-> call.file_id,
                            error |-> "exception"]
            /\ UNCHANGED processed
       ELSE IF call.output_path \notin generated
       THEN /\ response' = [handler |-> "process_file", code |-> 500, file_id |-> call.file_id,
                            error |-> "Video generation failed"]
            /\ UNCHANGED processed
       ELSE /\ response' = [handler |-> "process_file", code |-> 200, file_id |-> call.file_id,
                            video_id |-> call.output_path, download_url |-> call.output_path]
            /\ processed' = [f \in DOMAIN processed \cup {call.file_id} |->
                                IF f = call.file_id THEN call.output_path ELSE processed[f]]
    /\ call' = NoCall
    /\ UNCHANGED <<uploads, generated, issued, animation>>

\* get_processing_status
GetProcessingStatus(file_id) ==
    /\ LET videos == {filename \in generated :
                         StartsWith(filename, file_id) /\ EndsWithAnimation(filename)}
       IN  IF videos # {}
           THEN \E filename \in videos :
                   response' = [handler |-> "get_processing_status", code |-> 200, file_id |-> file_id,
                                status |-> "completed", video_id |-> filename,
                                download_url |-> filename]
           ELSE IF \E filename \in uploads : StartsWith(filename, file_id)
           THEN response' = [handler |-> "get_processing_status", code |-> 200, file_id |-> file_id,
                             status |-> "processing"]
           ELSE response' = [handler |-> "get_processing_status", code |-> 404, file_id |-> file_id,
                             error |-> "File not found"]
    /\ UNCHANGED <<uploads, generated, issued, call, processed, animation>>

\* the controller has started
InitService ==
    /\ text = <<>>
    /\ pc = "service"
    /\ operations = <<>>
    /\ InitRun

InitNotes ==
    /\ text \in SeqsUpTo(NoteLines, MaxNoteLines)
    /\ pc = "start"
    /\ operations = <<>>
    /\ InitRun

NextText == \/ Analyze \/ CreateAnimation \/ CreateDataStructureAnimation
            \/ StackStep \/ QueueStep \/ ArrayStep \/ TreeStep
            \/ ListStep \/ GraphStep
            \/ EndOfLoop \/ FramesToVideo \/ OtherAnimation
NextNotes == \/ Analyze \/ CreateAnimation \/ CreateDataStructureAnimation
             \/ StackStep \/ TreeStep \/ GraphStep
             \/ EndOfLoop \/ FramesToVideo \/ OtherAnimation
NextService == \/ UploadFile
               \/ \E file_id \in Requests : ProcessFile(file_id)
               \/ RunPipeline \/ AnimateContent \/ NarrateAnimation \/ SlideFallback
               \/ ProcessFileAnswer
               \/ \E file_id \in Requests : GetProcessingStatus(file_id)
NextSim == \/ CreateDataStructureAnimation
           \/ StackStep \/ QueueStep \/ ArrayStep \/ TreeStep
           \/ ListStep \/ GraphStep \/ HashStep
           \/ EndOfLoop \/ FramesToVideo \/ OtherAnimation
NextArray == ArrayStream \/ ArrayStreamEnd \/ FramesToVideo
NextReplay == HashReplayStep \/ HashReplayEnd
NextAudio == AddNarration \/ MakeVideoFromSlides \/ CreateVideoFromSlides
NextTwoRuns == \E r \in Runs : \/ SaveFrame(r) \/ RenderEnd(r) \/ FramesToVideoOf(r)
                               \/ TextToSpeech(r) \/ MuxNarration(r)

SpecText == InitText /\ [][NextText]_vars
SpecNotes == InitNotes /\ [][NextNotes]_vars
SpecService == InitService /\ [][NextService]_vars
SpecSim == InitSim /\ [][NextSim]_vars
SpecArray == InitArray /\ [][NextArray]_vars
SpecReplay == InitReplay /\ [][NextReplay]_vars
SpecAudio == InitAudio /\ [][NextAudio]_vars
SpecTwoRuns == InitTwoRuns /\ [][NextTwoRuns]_vars


\* ================================================================ claims

AllScoresZero == \A ct \in DOMAIN content_scores : content_scores[ct] = 0

\* C1: analyze_content returns a result for every text without raising, and
\* when every score is zero the returned type is general with all-zero scores.
C1_AnalyzeNeverRaises ==
    pc \in {"analyzed", "raised"} =>
        /\ raised = "none"
        /\ AllScoresZero => primary_type = "general"

\* the operation a line of the text is an occurrence of
StackOccurrence(line) ==
    CASE line = "push(10)" -> <<OpV("stack_push", "10")>>
      [] line = "- push 5" -> <<OpV("stack_push", "5")>>
      [] line = "pop()"    -> <<Op0("stack_pop")>>
      [] line = "stack.push(100);" -> <<OpV("stack_push", "100")>>
      [] line = "stack.pop();"     -> <<Op0("stack_pop")>>
      [] OTHER             -> <<>>

QueueOccurrence(line) ==
    CASE line = "enqueue(A)" -> <<OpV("queue_enqueue", "A")>>
      [] line = "dequeue()"  -> <<Op0("queue_dequeue")>>
      [] OTHER               -> <<>>

\* the occurrences of operations in the order of the text
Occurrences(t) ==
    IF InText(t, "stack") THEN FindAll(StackOccurrence, t)
    ELSE IF InText(t, "queue") THEN FindAll(QueueOccurrence, t)
    ELSE <<>>

\* C2: the operation list extracted from a data-structures text keeps the
\* order in which the operations occur in the text.
C2_SourceOrderPreserved ==
    (pc = "analyzed" /\ primary_type = "data_structures" /\ Occurrences(text) # <<>>)
        => elements = Occurrences(text)

\* C3: a text classified as data structures always yields a non-empty
\* operation list, also when no operation is recognised in it.
C3_FallbackNonEmpty ==
    (pc = "analyzed" /\ primary_type = "data_structures") => elements # <<>>

\* C4: every extracted operation list is homogeneous: all of its operations
\* belong to one structure kind.
C4_ExtractionHomogeneous ==
    (pc = "analyzed" /\ primary_type = "data_structures") => Cardinality(Kinds(elements)) <= 1

\* C5: an operation list of more than one structure kind aborts the run with
\* UnsupportedStructureMix; no simulator is chosen or run on it.
C5_MixedListAborts ==
    (pc \in {"sim", "done"} /\ Cardinality(Kinds(operations)) > 1)
        => (raised = "UnsupportedStructureMix" /\ simulator = "none" /\ step = 0)

\* number of operations of the given type among ops[a+1..b]
CountType(ops, type, a, b) == Cardinality({m \in (a + 1)..b : ops[m].type = type})

\* the push at position k is still on a LIFO stack after ops: no prefix of the
\* operations after it holds more pops than pushes
Survives(ops, k) ==
    /\ ops[k].type = "stack_push"
    /\ \A m \in (k + 1)..Len(ops) :
          CountType(ops, "stack_pop", k, m) <= CountType(ops, "stack_push", k, m)

RECURSIVE SurvivorsFrom(_, _)
SurvivorsFrom(ops, k) ==
    IF k > Len(ops) THEN <<>>
    ELSE (IF Survives(ops, k) THEN <<ops[k].value>> ELSE <<>>) \o SurvivorsFrom(ops, k + 1)

\* the reference stack
RefStack(ops) == SurvivorsFrom(ops, 1)

\* C6: the stack simulator is LIFO: after any sequence of pushes and pops
\* from the empty stack its state is that of the reference stack.
C6_StackLifo ==
    (simulator = "stack" /\ Kinds(operations) \subseteq {"stack"})
        => stack = RefStack(Prefix(operations, step))

C6_Witness ==
    /\ pc = "done"
    /\ operations = <<OpV("stack_push", "10"), OpV("stack_push", "20"), Op0("stack_pop")>>
    /\ stack = <<"10">>

RECURSIVE EnqueuedFrom(_, _)
EnqueuedFrom(ops, k) ==
    IF k > Len(ops) THEN <<>>
    ELSE (IF ops[k].type = "queue_enqueue" THEN <<ops[k].value>> ELSE <<>>) \o EnqueuedFrom(ops, k + 1)

\* the length of a queue after ops: the largest surplus of enqueues over
\* dequeues in a suffix of ops
RefQueueLen(ops) ==
    LET surplus(j) == CountType(ops, "queue_enqueue", j, Len(ops)) - CountType(ops, "queue_dequeue", j, Len(ops))
    IN  CHOOSE n \in 0..Len(ops) :
            /\ \E j \in 0..Len(ops) : surplus(j) = n
            /\ \A j \in 0..Len(ops) : surplus(j) <= n

\* the reference queue: the values enqueued last, in the order of their arrival
RefQueue(ops) ==
    LET all == EnqueuedFrom(ops, 1)
    IN  SubSeq(all, Len(all) - RefQueueLen(ops) + 1, Len(all))

\* C7: the queue simulator is FIFO: after any sequence of enqueues and
\* dequeues from the empty queue it holds the values that arrived last, in
\* arrival order, so every dequeue removed the earliest value still present.
C7_QueueFifo ==
    (simulator = "queue" /\ Kinds(operations) \subseteq {"queue"})
        => queue = RefQueue(Prefix(operations, step))

C7_Witness ==
    /\ pc = "done"
    /\ operations = <<OpV("queue_enqueue", "A"), OpV("queue_enqueue", "B"), Op0("queue_dequeue")>>
    /\ queue = <<"B">>

\* C8: array_insert with an index beyond the length, on an array below its
\* capacity, appends the value.
C8_InsertClampsIndex ==
    [][(/\ pc = "stream" /\ step' = step + 1
        /\ operation'.type = "array_insert" /\ "index" \in DOMAIN operation'
        /\ IntOf(operation'.index) > Len(array)
        /\ Len(array) < max_size)
       => array' = Append(array, operation'.value)]_vars

\* C9: the array never holds more than max_size elements, and an insert or an
\* append on a full array leaves it as it is.
C9_ArrayCapacity ==
    /\ [](Len(array) <= max_size)
    /\ [][(/\ pc = "stream" /\ step' = step + 1
           /\ operation'.type \in {"array_insert", "array_append"}
           /\ Len(array) = max_size)
          => array' = array]_vars

\* a full array of appended values on which the insert at index 0 that has
\* just run left no trace
C9_Witness ==
    /\ step = max_size + 1
    /\ operation = ArrayInsert("15", "0")
    /\ array = [k \in 1..max_size |-> "10"]

\* the path q lies in the subtree below the path p
Below(p, q) == Len(q) >= Len(p) /\ SubSeq(q, 1, Len(p)) = p

IsBst(tree) ==
    \A p \in DOMAIN tree : \A q \in DOMAIN tree :
        /\ Below(Append(p, "L"), q) => IntOf(tree[q]) < IntOf(tree[p])
        /\ Below(Append(p, "R"), q) => IntOf(tree[q]) >= IntOf(tree[p])

NonDecreasing(s) == \A k \in 1..(Len(s) - 1) : IntOf(s[k]) <= IntOf(s[k + 1])

\* C10: after any sequence of tree insertions every left subtree holds only
\* smaller values and every right subtree only greater or equal ones, and the
\* in-order traversal is non-decreasing.
C10_BstInvariant ==
    simulator = "tree" => (IsBst(root) /\ NonDecreasing(inorder_traversal(root)))

C10_Witness ==
    /\ pc = "done"
    /\ operations = WithValue("tree_insert", <<"50", "30", "70", "20", "40">>)
    /\ inorder_traversal(root) = <<"20", "30", "40", "50", "70">>

\* the keys of the model that are numbers
NumericKeys == {"15", "22"}

\* C11: the hash table stores every numeric key k in bucket k mod 7, so that
\* inserting 15 and 22 into the empty table leaves both in bucket 1 with the
\* collision counter at 1.
C11_NumericKeyModSeven ==
    simulator = "hash" =>
        /\ \A i \in DOMAIN hash_table : \A k \in 1..Len(hash_table[i]) :
              hash_table[i][k] \in NumericKeys => i = IntOf(hash_table[i][k]) % table_size
        /\ (pc = "done" /\ operations = <<HashKey("hash_insert", "15"), HashKey("hash_insert", "22")>>)
              => (hash_table[1] = <<"15", "22">> /\ collision_count = 1)

\* the neighbours the add_edge operations of ops give to vertex v, in order
RECURSIVE EdgeTargets(_, _)
EdgeTargets(ops, v) ==
    IF ops = <<>> THEN <<>>
    ELSE (IF Head(ops).type = "graph_add_edge" /\ Head(ops).from_node = v
          THEN <<Head(ops).to_node>> ELSE <<>>) \o EdgeTargets(Tail(ops), v)

start_node(op) ==
    IF "node" \in DOMAIN op THEN op.node ELSE IF nodes # <<>> THEN nodes[1] ELSE None

\* C13: every traversal, a second one of the run included, records as the
\* visited order its start vertex followed by the first up to two entries of
\* the adjacency list of the start vertex, for DFS and BFS alike.
C13_TraversalRecordsStartAndTwo ==
    [][(pc = "sim" /\ simulator = "graph" /\ step' = step + 1
        /\ operation'.type \in {"graph_dfs", "graph_bfs"} /\ start_node(operation') # None)
          => visited_order' = <<start_node(operation')>>
                              \o (IF start_node(operation') \in DOMAIN adjacency
                                  THEN Prefix(adjacency[start_node(operation')], 2) ELSE <<>>)]_vars

\* the operation about to be applied is one the structure cannot carry out
InvalidOperation(op) ==
    \/ simulator = "stack" /\ op.type = "stack_pop" /\ stack = <<>>
    \/ simulator = "queue" /\ op.type = "queue_dequeue" /\ queue = <<>>
    \/ /\ simulator = "array" /\ op.type = "array_delete" /\ "index" \in DOMAIN op
       /\ (IntOf(op.index) < 0 \/ IntOf(op.index) >= Len(array))
    \/ simulator = "list" /\ op.type = "list_delete" /\ head = <<>>
    \/ /\ simulator = "hash" /\ op.type = "hash_delete"
       /\ \A i \in DOMAIN hash_table : ~InSeq(op.key, hash_table[i])

\* C14: a pop on the empty stack, a dequeue on the empty queue, an array
\* delete with an index out of range, a delete on the empty linked list and a
\* hash delete of an absent key leave the structure as it was and do not end
\* the run: the loop goes on and ends only when every operation was consumed.
C14_InvalidOperationIgnored ==
    /\ []((pc \in {"frames_to_video", "done"}
           /\ simulator \in {"stack", "queue", "array", "list", "hash"})
             => (step = Len(operations) /\ raised = "none"))
    /\ [][(pc = "sim" /\ step < Len(operations) /\ InvalidOperation(operations[step + 1]))
             => /\ <<stack, queue, array, head, hash_table, collision_count>>'
                     = <<stack, queue, array, head, hash_table, collision_count>>
                /\ step' = step + 1 /\ pc' = "sim" /\ raised' = "none"]_vars

C14_Witness ==
    /\ pc = "done"
    /\ operations = <<HashKey("hash_insert", "22"), HashKey("hash_delete", "15"),
                      HashKey("hash_insert", "15")>>
    /\ hash_seed["15"] = hash_seed["22"]
    /\ hash_table[hash_seed["15"]] = <<"22", "15">>

\* C15: the same operation list replayed in a separately started process
\* gives the same hash table: the same bucket for every key and the same
\* collision counter at every step.
C15_ReplayIsIdentical ==
    pc \in {"replay", "done"} =>
        (replay.hash_table = hash_table /\ replay.collision_count = collision_count)

Abs(n) == IF n < 0 THEN -n ELSE n

ShownOperations(sim, ops) ==
    IF sim = "tree" THEN Cardinality({k \in 1..Len(ops) : ops[k].type = "tree_insert"})
    ELSE Len(ops)

VideoDuration(function) ==
    IF function = "make_video_from_slides" THEN Len(clips) * slide_duration
    ELSE IF function = "create_video_from_slides"
    THEN SumSeq(clips) + (Len(clips) - 1) * transition_duration
    ELSE SumSeq(clips)

Max(a, b) == IF a < b THEN b ELSE a

\* C17: when a narration track is put on a video the result lasts
\* max(video duration, audio duration): a longer audio extends the video to
\* exactly the audio duration, a shorter audio is carried whole and the
\* video keeps its duration.
C17_AudioReconciliation ==
    [][(pc = "mux" /\ pc' # "mux" /\ audio_duration # NoAudio)
          => /\ final_video'.duration = Max(VideoDuration(pc'), audio_duration)
             /\ final_video'.audio = audio_duration]_vars

C17_Witness ==
    /\ pc = "make_video_from_slides"
    /\ Len(clips) = 1 /\ audio_duration = 11
    /\ final_video = [duration |-> 11, audio |-> 11]

\* C18: when _frames_to_video has finished, whether the video was written or
\* the encoder failed, no temp_frame file of the run is left.
C18_FrameFilesDeleted ==
    (pc = "done" /\ returned = "output_path") => frame_files = {}

\* C19: a failure to write the video reaches the caller as an error: the
\* animation call does not return the output path when no video was written.
C19_EncodeFailurePropagates ==
    (pc = "done" /\ simulator \in {"stack", "queue", "array", "tree", "list", "graph", "hash"}
     /\ "mp4" \notin output_files)
        => (raised # "none" /\ returned = "none")

\* C20: of two runs in one working directory each encodes exactly the frames
\* it rendered, in order, and carries its own narration.
C20_RunsDoNotInterfere ==
    \A r \in Runs :
        /\ runs[r].pc \in {"text_to_speech", "mux", "done"}
              => runs[r].video = [k \in 1..runs[r].frame_count |-> <<r, k - 1>>]
        /\ runs[r].pc = "done" => runs[r].narration = r

\* the strings an operation carries: its value, key, node names and index
Carried(op) == {op[f] : f \in DOMAIN op \ {"type", "content_type"}}

\* C21: no operation the extractor emits carries a value, key or node name
\* that holds one of the characters ( ) [ ] { } " ' : , whichever path found
\* it: the call patterns, the natural-language patterns, the numbered-list
\* fallback or the value fallback.
C21_ValuesAreClean ==
    pc # "start" =>
        \A k \in 1..Len(elements) : \A value \in Carried(elements[k]) : unwanted(value) = {}

\* a value taken out of the call push(10) of a stack text
C21_Witness ==
    /\ pc = "analyzed"
    /\ \E k \in 1..Len(text) : text[k] = "push(10)" /\ unwanted(text[k]) # {}
    /\ \E k \in 1..Len(elements) : elements[k] = OpV("stack_push", "10")

\* the category order of the classification
CategoryOrder == <<"data_structures", "algorithms", "mathematics", "physics",
                   "chemistry", "biology", "business">>

\* C22: the category of a classification is the arg-max of its scores, the
\* earliest category of the fixed order among equal maxima (general when all
\* scores are zero), and every score is a non-negative integer.
C22_CategoryIsArgMax ==
    pc # "start" =>
        /\ DOMAIN content_scores = {CategoryOrder[k] : k \in 1..Len(CategoryOrder)}
        /\ \A ct \in DOMAIN content_scores : content_scores[ct] \in Nat
        /\ IF \A ct \in DOMAIN content_scores : content_scores[ct] = 0
           THEN primary_type = "general"
           ELSE \E a \in 1..Len(CategoryOrder) :
                   /\ primary_type = CategoryOrder[a]
                   /\ \A b \in 1..Len(CategoryOrder) :
                         content_scores[CategoryOrder[b]] <= content_scores[primary_type]
                   /\ \A b \in 1..(a - 1) :
                         content_scores[CategoryOrder[b]] < content_scores[primary_type]

\* two categories share the highest score, and the earlier one is taken
C22_Witness ==
    /\ pc = "analyzed"
    /\ primary_type = "data_structures"
    /\ content_scores["data_structures"] > 0
    /\ \E ct \in DOMAIN content_scores \ {"data_structures"} :
          content_scores[ct] = content_scores["data_structures"]

\* the structure kind the extractor infers for a text: the keyword of the
\* if / elif chain for a tree, list, graph, hash or array text; for a stack
\* or queue text and a text without structure keyword, which all reach the
\* fallbacks when nothing was found, the kind the last fallback tests for
InferredKind(t) ==
    IF InText(t, "stack") THEN "stack"
    ELSE IF InText(t, "queue")
         THEN IF AnyInText(t, {"push", "pop", "lifo"}) THEN "stack" ELSE "queue"
    ELSE IF AnyInText(t, {"tree", "binary tree", "bst", "binary search tree", "node", "struct node"})
         THEN "tree"
    ELSE IF AnyInText(t, {"linked list", "linkedlist", "list"}) THEN "list"
    ELSE IF InText(t, "graph") THEN "graph"
    ELSE IF AnyInText(t, {"hash", "hash table", "hashtable"}) THEN "hash"
    ELSE IF InText(t, "array") THEN "array"
    ELSE IF AnyInText(t, {"push", "pop", "lifo"}) THEN "stack"
    ELSE IF AnyInText(t, {"enqueue", "dequeue", "fifo"}) THEN "queue"
    ELSE IF AnyInText(t, {"data structure", "push", "pop", "insert", "delete"}) THEN "stack"
    ELSE "none"

\* how many operations the patterns of the kind, and the numbered-list
\* fallback where the kind reaches it, recognise in the text
Recognised(t) ==
    LET kind == InferredKind(t)
        count(Pat(_, _), n) == SumSeq([p \in 1..n |-> Len(FindAllP(Pat, p, t))])
    IN  CASE kind = "tree"  -> count(tree_patterns, 5)
          [] kind = "list"  -> count(list_patterns, 3)
          [] kind = "graph" -> Len(FindAll(graph_node_matches, t)) + Len(FindAll(graph_edge_matches, t))
                               + (IF AnyInText(t, {"dfs", "depth.*first", "bfs", "breadth.*first"})
                                  THEN 1 ELSE 0)
          [] kind = "hash"  -> count(hash_patterns, 3)
          [] kind = "array" -> Len(FindAll(array_insert_matches, t)) + Len(FindAll(array_append_matches, t))
                               + Len(FindAll(array_delete_matches, t))
          [] OTHER          -> (IF InText(t, "stack") THEN count(push_patterns, 6) + count(pop_patterns, 5)
                                ELSE IF InText(t, "queue")
                                THEN count(enqueue_patterns, 6) + count(dequeue_patterns, 5)
                                ELSE 0)
                               + Len(NumberedFallback(t))

\* the seed sequence of a kind
CanonicalSeed(kind, t) ==
    CASE kind = "stack" -> <<OpV("stack_push", "10"), OpV("stack_push", "20"), Op0("stack_pop"),
                             OpV("stack_push", "30")>>
      [] kind = "queue" -> QueueSeed
      [] kind = "tree"  -> IF AnyInText(t, {"50", "30", "70", "20", "40", "60", "80"})
                           THEN BstSeed ELSE GenericTreeSeed
      [] kind = "list"  -> ListSeed
      [] kind = "graph" -> GraphSeed
      [] kind = "hash"  -> HashSeed
      [] kind = "array" -> ArraySeed

\* a text of an inferred kind in which no operation is recognised
NothingRecognised ==
    /\ pc = "analyzed"
    /\ primary_type = "data_structures"
    /\ InferredKind(text) # "none"
    /\ Recognised(text) = 0

GraphNotes(t) ==
    /\ InText(t, "graph")
    /\ \A line \in {"Add node A", "Add edge A to B", "DFS traversal from A"} :
          \E k \in 1..Len(t) : t[k] = line
    /\ ~InText(t, "stack")
    /\ ~InText(t, "queue")

\* C24: notes that describe graph operations (the word graph with the steps
\* 'Add node A', 'Add edge A to B', 'DFS traversal from A', no stack or queue
\* keyword) are classified as data structures, extracted as graph operations
\* and animated by the graph simulator.
C24_GraphNotesAnimated ==
    (pc # "start" /\ GraphNotes(text)) =>
        /\ primary_type = "data_structures"
        /\ elements # <<>>
        /\ Kinds(elements) = {"graph"}
        /\ simulator \in {"none", "graph"}

\* the place of the node the operation of the step has created
CreatedNode ==
    IF operation'.type = "tree_insert" THEN DOMAIN root' \ DOMAIN root
    ELSE IF operation'.type = "list_insert" THEN {1}
    ELSE {Len(head')}

\* C25: in the frame after an insertion exactly the node the operation has
\* created is highlighted: after a tree insert, a list insert at the head and
\* a list append at the tail, also when the structure already holds the value.
C25_OnlyNewNodeHighlighted ==
    [][(/\ pc = "sim"
        /\ step' = step + 1
        /\ \/ simulator = "tree" /\ operation'.type = "tree_insert"
           \/ simulator = "list" /\ operation'.type \in {"list_insert", "list_append"})
       => highlighted' = CreatedNode]_vars

\* C26: whenever run_pipeline has returned normally, whether the animation
\* was narrated, the narration failed or the slides were used, a video file
\* exists at exactly the output path, so that process_file answers 200 and
\* never 'Video generation failed'.
C26_VideoAtOutputPath ==
    /\ (call.handler = "process_file" /\ call.pc = "returned") => call.output_path \in generated
    /\ ~(/\ response.handler = "process_file"
          /\ response.code = 500
          /\ response.error = "Video generation failed")

\* C27: once upload_file has returned a file id and process_file has
\* answered 200 with a video id for it, every later get_processing_status of
\* that file id reports 'completed' with the download URL of that video.
C27_StatusCompletedAfterProcessing ==
    (response.handler = "get_processing_status" /\ response.file_id \in DOMAIN processed) =>
        /\ response.code = 200
        /\ response.status = "completed"
        /\ response.video_id = processed[response.file_id]
        /\ response.download_url = processed[response.file_id]

\* C28: in the graph simulator every node of the visited order is a
\* registered vertex, also for the lists of the extractor, whose traversals
\* always start at 'A'.
C28_VisitedAreRegistered ==
    \A k \in 1..Len(visited_order) : InSeq(visited_order[k], nodes)

\* the key is in some chain of the table
Stored(table, key) == \E index \in DOMAIN table : InSeq(key, table[index])

\* C29: hash insert is idempotent on the whole state: inserting a key the
\* table holds leaves table and collision counter as they were; the counter
\* goes up exactly in the insertions that add a key to a non-empty bucket.
C29_InsertIdempotent ==
    [][(/\ pc = "sim" /\ simulator = "hash"
        /\ step' = step + 1
        /\ operation'.type = "hash_insert")
       => LET key == operation'.key
              added == ~Stored(hash_table, key)
              collided == \E index \in DOMAIN hash_table :
                             /\ InSeq(key, hash_table'[index])
                             /\ hash_table[index] # <<>>
          IN  /\ ~added => hash_table' = hash_table
              /\ collision_count' = collision_count + (IF added /\ collided THEN 1 ELSE 0)]_vars

\* how often x occurs in the sequence s
Count(s, x) == Cardinality({k \in 1..Len(s) : s[k] = x})

\* C30: every occurrence of a stack or queue operation in the text yields
\* exactly one operation: for calls on an object (stack.push(100);
\* stack.pop();) the extracted list has as many operations of each form as
\* the text has occurrences, none counted by more than one pattern.
C30_OneOperationPerOccurrence ==
    (pc = "analyzed" /\ primary_type = "data_structures" /\ Occurrences(text) # <<>>) =>
        /\ Len(elements) = Len(Occurrences(text))
        /\ \A k \in 1..Len(elements) :
              Count(elements, elements[k]) = Count(Occurrences(text), elements[k])

====
